---- MODULE Spec2Model ----
(***************************************************************************)
(* Transaction lifecycle engine of bankid-sdk: init_auth, check, acheck    *)
(* and cancel over a MemoryStorage and the action registry, against a      *)
(* BankID provider whose answers are inputs.                               *)
(***************************************************************************)
EXTENDS Integers, Sequences, FiniteSets, TLC

\* ------------------------------------------------------------------ bounds

\* init_auth calls started in one behaviour (each mints one or two uuids).
MaxInits == 2

\* Every uuid4 value handed out is new: the n-th call returns n.
MaxUuid == 2 * MaxInits

\* Orders initiated in one behaviour of overlapping polls.
MaxRaceInits == 1

\* Collect polls one event stream makes before its client goes away.
MaxPolls == 2

\* Orders initiated by event streams in one behaviour.
MaxStreamInits == 1

\* Instants of the clock, in ticks.
MaxTime == 22

\* Ticks of the clock in a second.
TicksPerSecond == 2

\* QR codes made of one order.
MaxCodes == 2

\* The latest instant, in ticks, generate_qr_code is tried with by itself.
MaxInstant == 7

\* Action types one registry is built of.
MaxActions == 2

\* Exception handlers waiting on a client for its next call.
MaxHandlers == 2

\* Calls made of one client's methods.
MaxClientCalls == 2

\* Objects saved in a MemoryStorage.
MaxSaves == 3

\* Callers that may have a call in progress.
Procs == {"p1", "p2"}

\* ------------------------------------------------------------------ values

None == "None"

ActionNames == {"LOGIN", "PAY"}

Contexts == {"ctxA", "ctxB"}

ActionKeys == {<<"auth", n>> : n \in ActionNames}

\* A transaction_id is a uuid4 string; 0 stands for a value never minted.
IDs == 0 .. MaxUuid

OrderRefs == 1 .. MaxInits

NoTx ==
    [transaction_id |-> 0, order_ref |-> 0, auto_start_token |-> 0,
     operation |-> None, action_name |-> None, context |-> None]

NoResult == [kind |-> None, hint |-> None]

NoExc == [kind |-> None, detail |-> None, status |-> None]

NoRet == [transaction_id |-> 0, auto_start_token |-> 0, qr_code |-> None,
          finalize_data |-> None]

\* ------------------------------------------------------------- exceptions

Exc(kind) == [kind |-> kind, detail |-> None, status |-> None]

InitFailed(detail, status) ==
    [kind |-> "InitFailed",
     detail |-> IF detail # None THEN detail ELSE "Initialisation failed",
     status |-> status]

FinalizeFailed(detail, status) ==
    [kind |-> "FinalizeFailed",
     detail |-> IF detail # None THEN detail ELSE "Completion failed",
     status |-> status]

Details == {None, "custom detail"}

Statuses == {None, "403"}

\* ---------------------------------------------------------------- storage

\* MemoryStorage.load: the stored object, or None.
Load(store, key) == IF key \in DOMAIN store THEN store[key] ELSE NoTx

\* MemoryStorage.delete: del content[key], a missing key suppressed.
Delete(store, key) == [k \in DOMAIN store \ {key} |-> store[k]]

\* MemoryStorage.save: content[transaction_id] = obj under a new uuid4.
Save(store, id, obj) ==
    [k \in DOMAIN store \cup {id} |-> IF k = id THEN obj ELSE store[k]]

EmptyStore == [k \in {} |-> NoTx]

\* ------------------------------------------------------------------ state

VARIABLES
    content,        \* MemoryStorage.content: TransactionID -> Transaction
    configACTIONS,  \* config.ACTIONS: the registered (operation, name) keys
    uuids,          \* uuid4 values handed out so far
    inits,          \* init_auth calls started so far
    orders,         \* orders the provider has created so far
    pollable,       \* order_refs created, not reported terminal, not cancelled
    call,           \* per caller: the call in progress and its locals
    finalizeCount,  \* per TransactionID: finalize invocations
    deleteCount,    \* per TransactionID: STORAGE.delete calls by the engine
    cancelCount,    \* per order_ref: provider cancel calls that succeeded
    polled,         \* callers that have started an overlapping poll
    stream,         \* per caller: the event stream of _stream_auth_flow
    response,       \* the provider's latest answer and what the client raised
    computed,       \* the latest call of a function without side effects
    clock,          \* datetime.now(tz=timezone.utc), in ticks
    qr,             \* an order, its stored form and the QR codes made of it
    attrs,          \* per attribute of config: its LazyAttr's value
    ledger,         \* what save has returned and delete has been given
    client          \* a V60 client: its _exc_hooks and its latest call

vars == <<content, configACTIONS, uuids, inits, orders, pollable, call,
          finalizeCount, deleteCount, cancelCount, polled, stream, response,
          computed, clock, qr, attrs, ledger, client>>

\* The attributes of _Configuration that are LazyAttr.
attrnames == {"API_BASE_URL", "STORAGE", "ACTIONS", "CERT", "CA_CERT"}

\* _NOT_SET: the LazyAttr has no value.
NOT_SET == [set |-> FALSE, value |-> None]

\* A LazyAttr that has the given value.
ValueSet(v) == [set |-> TRUE, value |-> v]

\* Nothing has been saved and nothing deleted.
NoLedger == [saved |-> EmptyStore, deleted |-> {}]

\* No function has been called yet.
NoComputation == [fn |-> None]

\* No order response has been decoded yet.
NoOrder == [qr_start_token |-> None, qr_start_secret |-> None, start_time |-> 0]

NoQr ==
    [order |-> NoOrder,
     stored |-> [qr_start_token |-> None, qr_start_secret |-> None,
                 start_time |-> <<0, 0>>],
     saved |-> FALSE, codes |-> <<>>]

Idle ==
    [op |-> None, pc |-> "idle", tid |-> 0, action |-> None, tx |-> NoTx,
     answer |-> None, result |-> NoResult, raised |-> NoExc, ret |-> NoRet, events |-> <<>>,
     found |-> None, removed |-> FALSE, finExc |-> NoExc, saved |-> 0,
     finRet |-> None, initCtx |-> None, finCtx |-> None,
     finKey |-> <<None, None>>, pre |-> EmptyStore, requests |-> <<>>,
     thrown |-> None]

\* A request a client method posts to the provider: the endpoint and the
\* orderRef of its body, 0 where the body has none.
Posted(to, order_ref) == [to |-> to, order_ref |-> order_ref]

Quiescent == \A p \in Procs : call[p].pc = "idle"

\* No request has been sent to the provider yet.
NoResponse ==
    [op |-> None, fault |-> FALSE, status |-> 0, json |-> FALSE,
     object |-> FALSE, errorCode |-> None, raised |-> None,
     error_code |-> None, carried |-> FALSE, payload |-> None]

\* A client as V60Base.__init__ leaves it, no call made yet: _exc_hooks is
\* an empty deque.
NoClient ==
    [exc_hooks |-> <<>>, calls |-> 0, registered |-> <<>>, due |-> <<>>,
     upto |-> 0, entered |-> <<>>, seen |-> <<>>, raised |-> None, answer |-> NoResponse]

\* A generator of _stream_auth_flow that has not been started.
NoStream ==
    [pc |-> "idle", tid |-> 0, polls |-> 0, trace |-> <<>>, detail |-> None,
     error |-> None,
     req |-> [ip |-> None,
              transaction_id |-> [signed |-> FALSE, value |-> 0,
                                  stale |-> FALSE],
              action |-> ""],
     orders0 |-> 0, keys0 |-> {}]

Init ==
    /\ content = EmptyStore
    /\ configACTIONS \in SUBSET ActionKeys
    /\ uuids = 0
    /\ inits = 0
    /\ orders = 0
    /\ pollable = {}
    /\ call = [p \in Procs |-> Idle]
    /\ finalizeCount = [i \in IDs |-> 0]
    /\ deleteCount = [i \in IDs |-> 0]
    /\ cancelCount = [o \in OrderRefs |-> 0]
    /\ polled = {}
    /\ stream = [p \in Procs |-> NoStream]
    /\ response = NoResponse
    /\ computed = NoComputation
    /\ clock = 0
    /\ qr = NoQr
    /\ attrs = [a \in attrnames |-> NOT_SET]
    /\ ledger = NoLedger
    /\ client = NoClient

\* A call that raises: the exception propagates to the caller.
Raise(c, exc) == [c EXCEPT !.pc = "done", !.raised = exc]

\* ------------------------------------------------------------- configure

\* configure(actions=...): the registry is replaced by the given actions.
Configure(keys) ==
    /\ configACTIONS' = keys
    /\ configACTIONS # keys
    /\ UNCHANGED <<content, uuids, inits, orders, pollable, call,
                   finalizeCount, deleteCount, cancelCount, polled>>

\* -------------------------------------------------------------- init_auth

\* init_auth, and ainit_auth, which runs the same steps.
InitOps == {"init_auth", "ainit_auth"}

InitCalled(p, op, action) ==
    /\ call[p].pc = "idle"
    /\ inits < MaxInits
    /\ inits' = inits + 1
    /\ call' = [call EXCEPT ![p] =
                    [Idle EXCEPT !.op = op, !.pc = "initialize",
                                 !.action = action, !.pre = content]]
    /\ UNCHANGED <<content, configACTIONS, uuids, orders, pollable,
                   finalizeCount, deleteCount, cancelCount, polled>>

StartInitAuth(p, action) == InitCalled(p, "init_auth", action)

\* action().initialize(...) returns (user_data, transaction_context); then
\* the engine mints transaction_id = uuid4() and builds the return url.
InitInitializeOk(p, ctx) ==
    /\ call[p].op \in InitOps /\ call[p].pc = "initialize"
    /\ uuids' = uuids + 1
    /\ call' = [call EXCEPT ![p] =
                    [@ EXCEPT !.pc = "auth", !.tid = uuids + 1,
                              !.initCtx = ctx,
                              !.tx = [NoTx EXCEPT !.context = ctx],
                              !.events = Append(@, "initialize")]]
    /\ UNCHANGED <<content, configACTIONS, inits, orders, pollable,
                   finalizeCount, deleteCount, cancelCount, polled>>

InitializeRaised_Continues(c, exc) == [c EXCEPT !.pc = "auth"]

\* initialize raises: nothing in init_auth catches it, and the provider call
\* and the save that follow are not reached.
InitializeRaised(c, exc) == Raise(c, exc)

\* action().initialize(...) raises InitFailed(detail=..., status=...).
InitInitializeFails(p, detail, status) ==
    /\ call[p].op \in InitOps /\ call[p].pc = "initialize"
    /\ call' = [call EXCEPT ![p] =
                    InitializeRaised(
                        [@ EXCEPT !.events = Append(@, "initialize"),
                                  !.finExc = [kind |-> "InitFailed",
                                              detail |-> detail,
                                              status |-> status]],
                        InitFailed(detail, status))]
    /\ UNCHANGED <<content, configACTIONS, uuids, inits, orders, pollable,
                   finalizeCount, deleteCount, cancelCount, polled>>

\* client.auth(...) returns an OrderResponse: the provider created an order.
InitAuthOk(p) ==
    /\ call[p].op \in InitOps /\ call[p].pc = "auth"
    /\ orders' = orders + 1
    /\ pollable' = pollable \cup {orders + 1}
    /\ call' = [call EXCEPT ![p] =
                    [@ EXCEPT !.pc = "save",
                              !.tx = [@ EXCEPT !.order_ref = orders + 1,
                                               !.auto_start_token = orders + 1],
                              !.requests = Append(@, Posted("auth", 0)),
                              !.events = Append(@, "auth")]]
    /\ UNCHANGED <<content, configACTIONS, uuids, inits,
                   finalizeCount, deleteCount, cancelCount, polled>>

AuthErrors == {"BankIDAPIError", "BankIDHTTPError", "ValueError"}

AuthFailed_SavesAnyway(c, exc) == [c EXCEPT !.pc = "save"]

\* client.auth(...) raised: init_auth has no handler, and the save that
\* follows the call is not reached.
AuthFailed(c, exc) == Raise(c, exc)

\* client.auth(...) raises: no order exists at the provider. A ValueError is
\* raised while the request is built, before anything is posted.
InitAuthFails(p, kind) ==
    /\ call[p].op \in InitOps /\ call[p].pc = "auth"
    /\ call' = [call EXCEPT ![p] =
                    AuthFailed(
                        [@ EXCEPT !.events = Append(@, "auth"),
                                  !.requests =
                                      IF kind = "ValueError" THEN @
                                      ELSE Append(@, Posted("auth", 0)),
                                  !.thrown = kind],
                        Exc(kind))]
    /\ UNCHANGED <<content, configACTIONS, uuids, inits, orders, pollable,
                   finalizeCount, deleteCount, cancelCount, polled>>

\* The transaction_id init_auth returns: the one it minted itself; the id
\* the store's save returns is dropped.
ReturnedTransactionID(engineId, storeId) == engineId

\* The transaction_id ainit_auth returns: the one the store minted and
\* returned from save.
AinitReturnedTransactionID(engineId, storeId) == storeId

StoreKey_Reused(n) == 2

\* The key save stores under: TransactionID(str(uuid4())), a value no earlier
\* call has been given.
StoreKey(n) == n + 1

\* config.STORAGE.save(Transaction(...)); return AuthOrder(...).
InitSave(p) ==
    /\ call[p].op \in InitOps /\ call[p].pc = "save"
    /\ LET c == call[p]
           storeId == StoreKey(uuids)
           obj == [c.tx EXCEPT !.transaction_id = c.tid,
                               !.operation = "auth",
                               !.action_name = c.action]
       IN /\ uuids' = storeId
          /\ content' = Save(content, storeId, obj)
          /\ call' = [call EXCEPT ![p] =
                [c EXCEPT !.pc = "done", !.tx = obj, !.saved = storeId,
                          !.events = Append(@, "save"),
                          !.ret = [NoRet EXCEPT
                              !.transaction_id =
                                  IF c.op = "ainit_auth"
                                  THEN AinitReturnedTransactionID(c.tid,
                                                                  storeId)
                                  ELSE ReturnedTransactionID(c.tid, storeId),
                              !.auto_start_token = obj.auto_start_token]]]
    /\ UNCHANGED <<configACTIONS, inits, orders, pollable,
                   finalizeCount, deleteCount, cancelCount, polled>>

\* ---------------------------------------------------------- check, acheck

\* What the provider's collect answers, decoded by process_collect_response,
\* or the error the client raises.
PendingHintCodes ==
    {"outstandingTransaction", "noClient", "started", "userMrtd",
     "userCallConfirm", "userSign", "unknown"}

\* The hintCode strings a pending answer may carry: the known ones and one
\* the enumeration does not have.
RawPendingHints == PendingHintCodes \cup {"processing"}

PendingHint_Strict(raw) ==
    IF raw \in PendingHintCodes THEN raw ELSE "ValueError"

\* PendingHintCode(response_data["hintCode"]), UNKNOWN on ValueError.
PendingHint(raw) == IF raw \in PendingHintCodes THEN raw ELSE "unknown"

CollectResults ==
    {[kind |-> "pending", hint |-> PendingHint(r)] : r \in RawPendingHints}
    \cup {[kind |-> "complete", hint |-> None]}
    \cup {[kind |-> "failed", hint |-> h] : h \in {"expiredTransaction"}}

ClientErrors == {"BankIDAPIError", "BankIDHTTPError"}

\* class FailedHintCode
FailedHintCodes ==
    {"expiredTransaction", "certificateErr", "userCancel", "cancelled",
     "startFailed", "userDeclinedCall", "unknown"}

\* FailedHintCode(response_data["hintCode"]), UNKNOWN on ValueError.
FailedHint(raw) == IF raw \in FailedHintCodes THEN raw ELSE "unknown"

\* class CollectStatus
CollectStatuses == {"pending", "complete", "failed"}

\* The status strings a collect answer may carry: the three known ones, one
\* in another case and one the enumeration does not have.
RawStatuses == CollectStatuses \cup {"Pending", "expired"}

\* The hintCode strings a collect answer may carry: those of both
\* enumerations and two that neither has.
RawHints == RawPendingHints \cup FailedHintCodes \cup {"xyz"}

\* The JSON objects of 2xx collect answers.
RawCollects == [status : RawStatuses, hintCode : RawHints, orderRef : OrderRefs]

process_collect_response_UnknownAsFailed(raw) ==
    CASE raw.status = "pending" ->
            [kind |-> "pending", hint |-> PendingHint(raw.hintCode),
             order_ref |-> raw.orderRef]
      [] raw.status = "complete" ->
            [kind |-> "complete", hint |-> None, order_ref |-> raw.orderRef]
      [] OTHER ->
            [kind |-> "failed", hint |-> FailedHint(raw.hintCode),
             order_ref |-> raw.orderRef]

\* process_collect_response after raise_for_status: CollectStatus(...) raises
\* ValueError for a status that is not a member, before anything is built.
process_collect_response(raw) ==
    CASE raw.status \notin CollectStatuses ->
            [kind |-> "ValueError", hint |-> None, order_ref |-> 0]
      [] raw.status = "pending" ->
            [kind |-> "pending", hint |-> PendingHint(raw.hintCode),
             order_ref |-> raw.orderRef]
      [] raw.status = "complete" ->
            [kind |-> "complete", hint |-> None, order_ref |-> raw.orderRef]
      [] raw.status = "failed" ->
            [kind |-> "failed", hint |-> FailedHint(raw.hintCode),
             order_ref |-> raw.orderRef]

\* What finalize returns to its caller.
FinalizeValues == {None, "foo=bar"}

CheckCalled(p, op, tid) ==
    /\ call[p].pc = "idle"
    /\ call' = [call EXCEPT ![p] =
                    [Idle EXCEPT !.op = op, !.pc = "load", !.tid = tid,
                                 !.pre = content]]
    /\ UNCHANGED <<content, configACTIONS, uuids, inits, orders, pollable,
                   finalizeCount, deleteCount, cancelCount>>

StartCheck(p, op, tid) == CheckCalled(p, op, tid) /\ UNCHANGED polled

\* A poll that may overlap another caller's: each caller polls once.
StartPoll(p, op, tid) ==
    /\ p \notin polled
    /\ polled' = polled \cup {p}
    /\ CheckCalled(p, op, tid)

\* A transaction that is not in storage: check raises TransactionExpired,
\* acheck's assert fails.
CheckMissing_Continues(c) == [c EXCEPT !.pc = "collect"]

CheckMissing(c) ==
    Raise(c, Exc(IF c.op = "check" THEN "TransactionExpired"
                                   ELSE "AssertionError"))

\* transaction = config.STORAGE.load(transaction_id)
CheckLoad(p) ==
    /\ call[p].op \in {"check", "acheck"} /\ call[p].pc = "load"
    /\ LET c == [call[p] EXCEPT !.tx = Load(content, call[p].tid),
                                !.events = Append(@, "load")]
       IN call' = [call EXCEPT ![p] =
                    IF c.tx = NoTx THEN CheckMissing(c)
                                   ELSE [c EXCEPT !.pc = "collect"]]
    /\ UNCHANGED <<content, configACTIONS, uuids, inits, orders, pollable,
                   finalizeCount, deleteCount, cancelCount, polled>>

IsTerminal_OnlyComplete(result) == result.kind = "complete"

IsTerminal_AnyResult(result) == TRUE

\* isinstance(result, (CompleteCollect, FailedCollect))
IsTerminal(result) == result.kind \in {"complete", "failed"}

\* The order of the steps of check after the load.
StepAfter_FinalizeFirst(pc) ==
    CASE pc = "collect" -> "finalize"
      [] pc = "finalize" -> "delete"
      [] pc = "delete" -> "return"
      [] OTHER -> "done"

StepAfter(pc) ==
    CASE pc = "collect" -> "delete"
      [] pc = "delete" -> "finalize"
      [] pc = "finalize" -> "return"
      [] OTHER -> "done"

\* The provider side of a terminal answer: the order can no longer be polled.
ReportedTerminal(result) == result.kind \in {"complete", "failed"}

\* result = client.collect(transaction.order_response.order_ref)
CheckCollect(p, result) ==
    /\ call[p].op \in {"check", "acheck"} /\ call[p].pc = "collect"
    /\ call' = [call EXCEPT ![p] =
                    [@ EXCEPT !.pc = StepAfter("collect"), !.result = result,
                              !.answer = result.kind,
                              !.requests =
                                  Append(@, Posted("collect",
                                                   call[p].tx.order_ref)),
                              !.events = Append(@, "collect")]]
    /\ pollable' = IF ReportedTerminal(result)
                   THEN pollable \ {call[p].tx.order_ref}
                   ELSE pollable
    /\ UNCHANGED <<content, configACTIONS, uuids, inits, orders,
                   finalizeCount, deleteCount, cancelCount, polled>>

CollectFailed_TakenAsFailed(c, exc) ==
    [c EXCEPT !.pc = StepAfter("collect"),
              !.result = [kind |-> "failed", hint |-> None]]

\* client.collect(...) raised: check has no handler, and nothing after the
\* call is reached.
CollectFailed(c, exc) == Raise(c, exc)

\* client.collect(...) raises a provider or transport error.
CheckCollectFails(p, kind) ==
    /\ call[p].op \in {"check", "acheck"} /\ call[p].pc = "collect"
    /\ call' = [call EXCEPT ![p] =
                    CollectFailed(
                        [@ EXCEPT !.events = Append(@, "collect"),
                                  !.requests =
                                      Append(@, Posted("collect",
                                                       call[p].tx.order_ref)),
                                  !.thrown = kind],
                        Exc(kind))]
    /\ UNCHANGED <<content, configACTIONS, uuids, inits, orders, pollable,
                   finalizeCount, deleteCount, cancelCount, polled>>

\* The 2xx collect answers whose status is not one of CollectStatus, for the
\* order of the transaction polled.
UnknownStatusAnswers(tx) ==
    {[status |-> s, hintCode |-> "xyz", orderRef |-> tx.order_ref] :
        s \in RawStatuses \ CollectStatuses}

\* client.collect(...) gets a 2xx answer with such a status: what
\* process_collect_response does with it is what collect does, the
\* exception hooks catching httpx errors only.
CheckCollectUnknownStatus(p, raw) ==
    LET d == process_collect_response(raw)
        c == [call[p] EXCEPT !.events = Append(@, "collect"),
                             !.requests = Append(@, Posted("collect",
                                                           raw.orderRef)),
                             !.answer = raw.status]
        result == [kind |-> d.kind, hint |-> d.hint]
    IN /\ call[p].op \in {"check", "acheck"} /\ call[p].pc = "collect"
       /\ call' = [call EXCEPT ![p] =
                       IF d.kind = "ValueError"
                       THEN Raise(c, Exc("ValueError"))
                       ELSE [c EXCEPT !.pc = StepAfter("collect"),
                                      !.result = result]]
       /\ pollable' = IF d.kind # "ValueError" /\ ReportedTerminal(result)
                      THEN pollable \ {call[p].tx.order_ref}
                      ELSE pollable
       /\ UNCHANGED <<content, configACTIONS, uuids, inits, orders,
                      finalizeCount, deleteCount, cancelCount, polled>>

\* The ghost counters saturate, so that they stay bounded whatever happens.
Bump(n) == IF n < 3 THEN n + 1 ELSE n

\* if isinstance(result, (CompleteCollect, FailedCollect)):
\*     config.STORAGE.delete(transaction_id)
CheckDelete(p) ==
    /\ call[p].op \in {"check", "acheck"} /\ call[p].pc = "delete"
    /\ LET c == call[p] IN
       IF IsTerminal(c.result)
       THEN /\ content' = Delete(content, c.tid)
            /\ deleteCount' = [deleteCount EXCEPT ![c.tid] = Bump(@)]
            /\ call' = [call EXCEPT ![p] =
                    [c EXCEPT !.pc = StepAfter("delete"),
                              !.removed = c.tid \in DOMAIN content,
                              !.events = Append(@, "delete")]]
       ELSE /\ call' = [call EXCEPT ![p] =
                    [c EXCEPT !.pc = StepAfter("delete")]]
            /\ UNCHANGED <<content, deleteCount>>
    /\ UNCHANGED <<configACTIONS, uuids, inits, orders, pollable,
                   finalizeCount, cancelCount, polled>>

ShouldFinalize_AnyTerminal(c) == c.result.kind \in {"complete", "failed"}

ShouldFinalize_IfRemoved(c) == c.result.kind = "complete" /\ c.removed

\* if isinstance(result, CompleteCollect):
ShouldFinalize(c) == c.result.kind = "complete"

\* config.ACTIONS.get((transaction.operation, transaction.action_name))
ActionKey(tx) == <<tx.operation, tx.action_name>>

\* The action the completed transaction names is not registered: check
\* passes over it, acheck's subscript raises KeyError.
ActionMissing(c) ==
    IF c.op = "check"
    THEN [c EXCEPT !.pc = StepAfter("finalize"), !.found = "missing"]
    ELSE Raise([c EXCEPT !.found = "missing"], Exc("KeyError"))

FinalizeRaised_Swallowed(c, exc) == [c EXCEPT !.pc = StepAfter("finalize")]

\* finalize raises: nothing in check catches it.
FinalizeRaised(c, exc) == Raise(c, exc)

FinalizeData_Dropped(op, value) == None

\* What check keeps of finalize's return value: only acheck returns it.
FinalizeData(op, value) == IF op = "acheck" THEN value ELSE None

\* Neither a completed order nor a registered action: no finalize.
CheckFinalizeSkips(p) ==
    /\ call[p].op \in {"check", "acheck"} /\ call[p].pc = "finalize"
    /\ LET c == call[p] IN
       /\ ~ShouldFinalize(c) \/ ActionKey(c.tx) \notin configACTIONS
       /\ call' = [call EXCEPT ![p] =
                    IF ShouldFinalize(c)
                    THEN ActionMissing(c)
                    ELSE [c EXCEPT !.pc = StepAfter("finalize")]]
    /\ UNCHANGED <<content, configACTIONS, uuids, inits, orders, pollable,
                   finalizeCount, deleteCount, cancelCount, polled>>

FinalizeContext_Blank(tx) == None

\* The context argument of finalize: transaction.context.
FinalizeContext(tx) == tx.context

\* action().finalize(result, request, transaction.context) returns.
CheckFinalizeReturns(p, value) ==
    /\ call[p].op \in {"check", "acheck"} /\ call[p].pc = "finalize"
    /\ LET c == call[p] IN
       /\ ShouldFinalize(c) /\ ActionKey(c.tx) \in configACTIONS
       /\ finalizeCount' = [finalizeCount EXCEPT ![c.tid] = Bump(@)]
       /\ call' = [call EXCEPT ![p] =
                    [c EXCEPT !.pc = StepAfter("finalize"),
                              !.found = "found",
                              !.finRet = value,
                              !.finCtx = FinalizeContext(c.tx),
                              !.finKey = ActionKey(c.tx),
                              !.events = Append(@, "finalize"),
                              !.ret = [@ EXCEPT !.finalize_data =
                                          FinalizeData(c.op, value)]]]
    /\ UNCHANGED <<content, configACTIONS, uuids, inits, orders, pollable,
                   deleteCount, cancelCount, polled>>

\* action().finalize(...) raises FinalizeFailed(detail=..., status=...).
CheckFinalizeRaises(p, detail, status) ==
    /\ call[p].op \in {"check", "acheck"} /\ call[p].pc = "finalize"
    /\ LET c == call[p] IN
       /\ ShouldFinalize(c) /\ ActionKey(c.tx) \in configACTIONS
       /\ finalizeCount' = [finalizeCount EXCEPT ![c.tid] = Bump(@)]
       /\ call' = [call EXCEPT ![p] =
                    FinalizeRaised(
                        [c EXCEPT !.found = "found",
                                  !.finCtx = FinalizeContext(c.tx),
                                  !.finKey = ActionKey(c.tx),
                                  !.events = Append(@, "finalize"),
                                  !.finExc = [kind |-> "FinalizeFailed",
                                              detail |-> detail,
                                              status |-> status]],
                        FinalizeFailed(detail, status))]
    /\ UNCHANGED <<content, configACTIONS, uuids, inits, orders, pollable,
                   deleteCount, cancelCount, polled>>

\* The hint codes for which check builds a QR code.
QrHints == {"outstandingTransaction", "noClient"}

QrCode_AnyPending(result) ==
    IF result.kind = "pending" THEN "qr" ELSE None

\* qr_code = None; generate_qr_code(...) for a pending result with one of
\* the two hint codes.
QrCode(result) ==
    IF result.kind = "pending" /\ result.hint \in QrHints THEN "qr" ELSE None

\* return result, qr_code (acheck: and finalize_data)
CheckReturn(p) ==
    /\ call[p].op \in {"check", "acheck"} /\ call[p].pc = "return"
    /\ call' = [call EXCEPT ![p] =
                    [@ EXCEPT !.pc = "done",
                              !.ret = [@ EXCEPT !.qr_code =
                                          QrCode(call[p].result)]]]
    /\ UNCHANGED <<content, configACTIONS, uuids, inits, orders, pollable,
                   finalizeCount, deleteCount, cancelCount, polled>>

\* ----------------------------------------------------------------- cancel

StartCancel(p, tid) ==
    /\ call[p].pc = "idle"
    /\ call' = [call EXCEPT ![p] =
                    [Idle EXCEPT !.op = "cancel", !.pc = "load", !.tid = tid,
                                 !.pre = content]]
    /\ UNCHANGED <<content, configACTIONS, uuids, inits, orders, pollable,
                   finalizeCount, deleteCount, cancelCount, polled>>

CancelMissing_Raises(c) == Raise(c, Exc("TransactionExpired"))

\* if transaction is None: return
CancelMissing(c) == [c EXCEPT !.pc = "done"]

\* transaction = config.STORAGE.load(transaction_id)
CancelLoad(p) ==
    /\ call[p].op = "cancel" /\ call[p].pc = "load"
    /\ LET c == [call[p] EXCEPT !.tx = Load(content, call[p].tid),
                                !.events = Append(@, "load")]
       IN call' = [call EXCEPT ![p] =
                    IF c.tx = NoTx THEN CancelMissing(c)
                                   ELSE [c EXCEPT !.pc = "cancel"]]
    /\ UNCHANGED <<content, configACTIONS, uuids, inits, orders, pollable,
                   finalizeCount, deleteCount, cancelCount, polled>>

\* client.cancel(transaction.order_response.order_ref) succeeds.
CancelProvider(p) ==
    /\ call[p].op = "cancel" /\ call[p].pc = "cancel"
    /\ pollable' = pollable \ {call[p].tx.order_ref}
    /\ cancelCount' = [cancelCount EXCEPT ![call[p].tx.order_ref] = Bump(@)]
    /\ call' = [call EXCEPT ![p] =
                    [@ EXCEPT !.pc = "delete",
                              !.requests =
                                  Append(@, Posted("cancel",
                                                   call[p].tx.order_ref)),
                              !.events = Append(@, "cancel")]]
    /\ UNCHANGED <<content, configACTIONS, uuids, inits, orders,
                   finalizeCount, deleteCount, polled>>

CancelFailed_StillDeletes(c, exc) == [Raise(c, exc) EXCEPT !.pc = "delete"]

CancelFailed_Retries(c, exc) == [c EXCEPT !.pc = "cancel"]

\* client.cancel(...) raised: cancel has no handler, the delete that follows
\* the call is not reached.
CancelFailed(c, exc) == Raise(c, exc)

\* client.cancel(...) raises a provider or transport error.
CancelProviderFails(p, kind) ==
    /\ call[p].op = "cancel" /\ call[p].pc = "cancel"
    /\ call' = [call EXCEPT ![p] =
                    CancelFailed(
                        [@ EXCEPT !.events = Append(@, "cancel"),
                                  !.requests =
                                      Append(@, Posted("cancel",
                                                       call[p].tx.order_ref)),
                                  !.thrown = kind],
                        Exc(kind))]
    /\ UNCHANGED <<content, configACTIONS, uuids, inits, orders, pollable,
                   finalizeCount, deleteCount, cancelCount, polled>>

CancelStorage_Keeps(store, key) == store

\* config.STORAGE.delete(transaction_id)
CancelStorage(store, key) == Delete(store, key)

CancelDelete(p) ==
    /\ call[p].op = "cancel" /\ call[p].pc = "delete"
    /\ content' = CancelStorage(content, call[p].tid)
    /\ deleteCount' = [deleteCount EXCEPT ![call[p].tid] = Bump(@)]
    /\ call' = [call EXCEPT ![p] =
                    [@ EXCEPT !.pc = "done",
                              !.removed = call[p].tid \in DOMAIN content,
                              !.events = Append(@, "delete")]]
    /\ UNCHANGED <<configACTIONS, uuids, inits, orders, pollable,
                   finalizeCount, cancelCount, polled>>

\* ----------------------------------------------------------------- return

\* The caller takes the result (or the exception) of its finished call.
Return(p) ==
    /\ call[p].pc = "done"
    /\ call' = [call EXCEPT ![p] = Idle]
    /\ UNCHANGED <<content, configACTIONS, uuids, inits, orders, pollable,
                   finalizeCount, deleteCount, cancelCount, polled>>

\* ---------------------------------------------------------- specifications

\* The identifiers a caller may pass: every uuid handed out so far, and one
\* that never was.
KnownIDs == 0 .. uuids

\* A caller starts a call.
Start(p) ==
    \/ \E a \in ActionNames : StartInitAuth(p, a)
    \/ \E op \in {"check", "acheck"}, tid \in KnownIDs : StartCheck(p, op, tid)
    \/ \E tid \in KnownIDs : StartCancel(p, tid)

\* A call in progress takes its next step.
InitStep(p) ==
    \/ \E ctx \in Contexts : InitInitializeOk(p, ctx)
    \/ \E d \in Details, s \in Statuses : InitInitializeFails(p, d, s)
    \/ InitAuthOk(p)
    \/ \E k \in AuthErrors : InitAuthFails(p, k)
    \/ InitSave(p)

\* One step of check or acheck, the provider's answer drawn from results.
CheckStepOn(p, results) ==
    \/ CheckLoad(p)
    \/ \E r \in results : CheckCollect(p, r)
    \/ \E k \in ClientErrors : CheckCollectFails(p, k)
    \/ /\ call[p].pc = "collect"
       /\ \E raw \in UnknownStatusAnswers(call[p].tx) :
            CheckCollectUnknownStatus(p, raw)
    \/ CheckDelete(p)
    \/ CheckFinalizeSkips(p)
    \/ \E v \in FinalizeValues : CheckFinalizeReturns(p, v)
    \/ \E d \in Details, s \in Statuses : CheckFinalizeRaises(p, d, s)
    \/ CheckReturn(p)

CheckStep(p) == CheckStepOn(p, CollectResults)

CancelStep(p) ==
    \/ CancelLoad(p)
    \/ CancelProvider(p)
    \/ \E k \in ClientErrors : CancelProviderFails(p, k)
    \/ CancelDelete(p)

Reconfigure == \E keys \in SUBSET ActionKeys : Configure(keys)

\* Calls one after the other: a call starts only when none is in progress.
Next ==
    \/ \E p \in Procs : Quiescent /\ Start(p) /\ UNCHANGED <<stream, response, computed, clock, qr, attrs, ledger, client>>
    \/ \E p \in Procs : InitStep(p) /\ UNCHANGED <<stream, response, computed, clock, qr, attrs, ledger, client>>
    \/ \E p \in Procs : CheckStep(p) /\ UNCHANGED <<stream, response, computed, clock, qr, attrs, ledger, client>>
    \/ \E p \in Procs : CancelStep(p) /\ UNCHANGED <<stream, response, computed, clock, qr, attrs, ledger, client>>
    \/ \E p \in Procs : Return(p) /\ UNCHANGED <<stream, response, computed, clock, qr, attrs, ledger, client>>
    \/ Quiescent /\ Reconfigure /\ UNCHANGED <<stream, response, computed, clock, qr, attrs, ledger, client>>

Spec == Init /\ [][Next]_vars

\* The answers overlapping polls are given: complete, failed, and of the
\* pending ones the hint that yields a QR code and one that does not.
RacingHints == {"outstandingTransaction", "userSign"}

RacingResults ==
    {r \in CollectResults : r.kind = "pending" => r.hint \in RacingHints}

\* Polls that overlap: the engine takes no lock, and each storage call,
\* provider call and callback is a step of its own. Orders are initiated one
\* at a time, before the polls begin, and a poll is of a stored transaction.
NextConc ==
    \/ \E p \in Procs, a \in ActionNames :
            /\ Quiescent /\ polled = {} /\ inits < MaxRaceInits
            /\ StartInitAuth(p, a)
            /\ UNCHANGED <<stream, response, computed, clock, qr, attrs, ledger, client>>
    \/ \E p \in Procs : InitStep(p) /\ UNCHANGED <<stream, response, computed, clock, qr, attrs, ledger, client>>
    \/ \E p \in Procs, op \in {"check", "acheck"}, tid \in DOMAIN content :
            /\ \A q \in Procs : call[q].op # "init_auth"
            /\ StartPoll(p, op, tid)
            /\ UNCHANGED <<stream, response, computed, clock, qr, attrs, ledger, client>>
    \/ \E p \in Procs : CheckStepOn(p, RacingResults) /\ UNCHANGED <<stream, response, computed, clock, qr, attrs, ledger, client>>
    \/ \E p \in Procs : Return(p) /\ UNCHANGED <<stream, response, computed, clock, qr, attrs, ledger, client>>

SpecConc == Init /\ [][NextConc]_vars


\* ------------------------------------------------------ _stream_auth_flow

\* envelop(value): the signed, time-stamped form of a transaction_id.
envelop(value) == [signed |-> TRUE, value |-> value, stale |-> FALSE]

\* No transaction_id in the request body (data.get gives None, or a value
\* that is not truthy).
NoEnvelope == [signed |-> FALSE, value |-> 0, stale |-> FALSE]

\* A transaction_id the signer did not sign.
BadEnvelope == [signed |-> FALSE, value |-> 0, stale |-> TRUE]

\* verify_envelope(value): the signed value when the signature is good and
\* at most five minutes old, else None (0 here: no transaction has that key).
verify_envelope(value) ==
    IF value.signed /\ ~value.stale THEN value.value ELSE 0

\* The transaction_id values a request body may carry.
EnvelopeInputs ==
    {NoEnvelope, BadEnvelope}
    \cup {envelop(id) : id \in 1 .. uuids}
    \cup {[envelop(id) EXCEPT !.stale = TRUE] : id \in DOMAIN content}

\* The request: get_client_ip(request) and the parsed JSON body.
StreamRequest(ip, transaction_id, action) ==
    [ip |-> ip, transaction_id |-> transaction_id, action |-> action]

\* The requests tried: one without a client ip, one for each transaction_id
\* (the action is not looked at then), one for each action name.
StreamRequests ==
    {StreamRequest(None, NoEnvelope, "LOGIN")}
    \cup {StreamRequest("192.168.1.1", t, "") : t \in EnvelopeInputs}
    \cup {StreamRequest("192.168.1.1", NoEnvelope, a) :
            a \in ActionNames \cup {""}}

\* The callers that open event streams.
StreamProcs == {"p1"}

StreamActive(p) == stream[p].pc \in {"init", "poll", "polling", "sleep"}

NoStreamActive == \A p \in Procs : ~StreamActive(p)

\* yield f"event: {event}\ndata: ...\n\n": the trace keeps the event names,
\* and the data of the latest event; the data of an auth event is written
\* "transaction_id", the id it carries being the generator's tid.
Emit(st, event, detail) ==
    [st EXCEPT !.trace = Append(@, event), !.detail = detail]

\* A step of the generator that is not an event: a call it makes, a sleep.
Mark(st, step) == [st EXCEPT !.trace = Append(@, step)]

\* return: the generator is exhausted.
Finish(st) == [st EXCEPT !.pc = "finished"]

\* The generator as it starts on a request; it remembers the orders created
\* and the keys stored so far.
Opened(data) ==
    [NoStream EXCEPT !.req = data, !.orders0 = orders,
                     !.keys0 = DOMAIN content]

\* An exception leaves the generator: the response ends without an event.
Crashed(st) == [st EXCEPT !.pc = "crashed"]

Resumable_Never(transaction) == FALSE

\* if transaction := config.STORAGE.load(transaction_id)
Resumable(transaction) == transaction # NoTx

\* The generator yields one failed event and returns before any engine call:
\* no client ip, a transaction_id that does not load, or an action that is
\* not registered.
StreamRejects(p, data) ==
    /\ NoStreamActive /\ Quiescent
    /\ \/ /\ data.ip = None
          /\ stream' = [stream EXCEPT ![p] =
                Finish(Emit(Opened(data), "failed", "Invalid IP"))]
       \/ /\ data.ip # None /\ data.transaction_id # NoEnvelope
          /\ ~Resumable(Load(content, verify_envelope(data.transaction_id)))
          /\ stream' = [stream EXCEPT ![p] =
                Finish(Emit(Opened(data), "failed", "Invalid transaction"))]
       \/ /\ data.ip # None /\ data.transaction_id = NoEnvelope
          /\ <<"auth", data.action>> \notin configACTIONS
          /\ stream' = [stream EXCEPT ![p] =
                Finish(Emit(Opened(data), "failed", "Invalid action"))]
    /\ UNCHANGED <<content, configACTIONS, uuids, inits, orders, pollable,
                   call, finalizeCount, deleteCount, cancelCount, polled>>

\* order = AuthOrder(transaction_id=transaction_id, ...) of the loaded
\* transaction, then the auth event.
Resumed(st, tid) ==
    [Emit(st, "auth", "transaction_id") EXCEPT !.pc = "poll", !.tid = tid]

\* The request names a transaction that is in storage: the stream goes on
\* with it.
StreamResumes(p, data) ==
    /\ NoStreamActive /\ Quiescent
    /\ data.ip # None /\ data.transaction_id # NoEnvelope
    /\ LET tid == verify_envelope(data.transaction_id) IN
       /\ Resumable(Load(content, tid))
       /\ stream' = [stream EXCEPT ![p] = Resumed(Opened(data), tid)]
    /\ UNCHANGED <<content, configACTIONS, uuids, inits, orders, pollable,
                   call, finalizeCount, deleteCount, cancelCount, polled>>

\* order = await bankid_sdk.ainit_auth(...) is called.
StreamInitiates(p, data) ==
    /\ NoStreamActive /\ Quiescent
    /\ data.ip # None /\ data.transaction_id = NoEnvelope
    /\ <<"auth", data.action>> \in configACTIONS
    /\ inits < MaxStreamInits
    /\ InitCalled(p, "ainit_auth", data.action)
    /\ stream' = [stream EXCEPT ![p] =
                    [Mark(Opened(data), "init") EXCEPT !.pc = "init"]]

\* except InitFailed: failed event with exc.detail; except (BankIDAPIError,
\* BankIDHTTPError): failed event "Service unavailable"; anything else
\* leaves the generator as an exception.
InitFailure(st, exc) ==
    CASE exc.kind = "InitFailed" -> Finish(Emit(st, "failed", exc.detail))
      [] exc.kind \in {"BankIDAPIError", "BankIDHTTPError"} ->
            Finish(Emit(st, "failed", "Service unavailable"))
      [] OTHER -> Crashed(st)

\* ainit_auth has returned or raised.
StreamInitDone(p) ==
    /\ stream[p].pc = "init" /\ call[p].pc = "done"
    /\ LET c == call[p]
           st == [stream[p] EXCEPT !.error = c.raised.kind]
       IN stream' = [stream EXCEPT ![p] =
            IF c.raised # NoExc
            THEN InitFailure(st, c.raised)
            ELSE [Emit(st, "auth", "transaction_id") EXCEPT
                    !.pc = "poll", !.tid = c.ret.transaction_id]]
    /\ call' = [call EXCEPT ![p] = Idle]
    /\ UNCHANGED <<content, configACTIONS, uuids, inits, orders, pollable,
                   finalizeCount, deleteCount, cancelCount, polled>>

\* result, qr_code, finalize_data = await bankid_sdk.acheck(...) is called.
StreamPoll(p) ==
    /\ stream[p].pc = "poll"
    /\ stream[p].polls < MaxPolls
    /\ StartCheck(p, "acheck", stream[p].tid)
    /\ stream' = [stream EXCEPT ![p] =
                    [Mark(@, "poll") EXCEPT !.pc = "polling",
                                            !.polls = @ + 1]]

\* except FinalizeFailed: failed event with exc.detail; anything else acheck
\* raised leaves the generator as an exception, with no event.
PollFailure(st, exc) ==
    IF exc.kind = "FinalizeFailed"
    THEN Finish(Emit(st, "failed", exc.detail))
    ELSE Crashed(st)

Polled_LoopsOnFailed(st, c) ==
    CASE c.result.kind \in {"pending", "failed"} ->
            [Mark(Emit(st, c.result.kind, c.result.hint), "sleep") EXCEPT
                !.pc = "sleep"]
      [] OTHER -> Finish(Emit(st, "complete", c.ret.finalize_data))

Polled_SleepsAlways(st, c) ==
    CASE c.result.kind = "pending" ->
            [Mark(Emit(st, "pending", c.result.hint), "sleep") EXCEPT
                !.pc = "sleep"]
      [] c.result.kind = "failed" ->
            Finish(Mark(Emit(st, "failed", c.result.hint), "sleep"))
      [] OTHER ->
            Finish(Mark(Emit(st, "complete", c.ret.finalize_data), "sleep"))

\* The event for the result acheck returned: pending, and the wait of two
\* seconds; failed; or complete, with finalize_data. The loop goes on only
\* after a pending result.
Polled(st, c) ==
    CASE c.result.kind = "pending" ->
            [Mark(Emit(st, "pending", c.result.hint), "sleep") EXCEPT
                !.pc = "sleep"]
      [] c.result.kind = "failed" ->
            Finish(Emit(st, "failed", c.result.hint))
      [] OTHER -> Finish(Emit(st, "complete", c.ret.finalize_data))

\* acheck has returned or raised.
StreamPolled(p) ==
    /\ stream[p].pc = "polling" /\ call[p].pc = "done"
    /\ LET c == call[p]
           st == [stream[p] EXCEPT !.error = c.raised.kind]
       IN stream' = [stream EXCEPT ![p] =
            IF c.raised # NoExc THEN PollFailure(st, c.raised)
                                ELSE Polled(st, c)]
    /\ call' = [call EXCEPT ![p] = Idle]
    /\ UNCHANGED <<content, configACTIONS, uuids, inits, orders, pollable,
                   finalizeCount, deleteCount, cancelCount, polled>>

\* await asyncio.sleep(2) is over: the loop polls again.
StreamWake(p) ==
    /\ stream[p].pc = "sleep"
    /\ stream' = [stream EXCEPT ![p] = [@ EXCEPT !.pc = "poll"]]
    /\ UNCHANGED <<content, configACTIONS, uuids, inits, orders, pollable,
                   call, finalizeCount, deleteCount, cancelCount, polled>>

\* The client goes away while the generator is suspended after an event:
\* the generator is closed where it stands.
StreamClose(p) ==
    /\ stream[p].pc \in {"poll", "sleep"}
    /\ stream' = [stream EXCEPT ![p] = [@ EXCEPT !.pc = "closed"]]
    /\ UNCHANGED <<content, configACTIONS, uuids, inits, orders, pollable,
                   call, finalizeCount, deleteCount, cancelCount, polled>>

\* Event streams one after the other; the engine calls a stream makes take
\* their steps as in Spec.
NextStream ==
    \/ \E p \in StreamProcs, data \in StreamRequests :
            StreamRejects(p, data) /\ UNCHANGED <<response, computed, clock, qr, attrs, ledger, client>>
    \/ \E p \in StreamProcs, data \in StreamRequests :
            StreamResumes(p, data) /\ UNCHANGED <<response, computed, clock, qr, attrs, ledger, client>>
    \/ \E p \in StreamProcs, data \in StreamRequests :
            StreamInitiates(p, data) /\ UNCHANGED <<response, computed, clock, qr, attrs, ledger, client>>
    \/ \E p \in Procs : InitStep(p) /\ UNCHANGED <<stream, response, computed, clock, qr, attrs, ledger, client>>
    \/ \E p \in Procs : StreamInitDone(p) /\ UNCHANGED <<response, computed, clock, qr, attrs, ledger, client>>
    \/ \E p \in Procs : StreamPoll(p) /\ UNCHANGED <<response, computed, clock, qr, attrs, ledger, client>>
    \/ \E p \in Procs : CheckStep(p) /\ UNCHANGED <<stream, response, computed, clock, qr, attrs, ledger, client>>
    \/ \E p \in Procs : StreamPolled(p) /\ UNCHANGED <<response, computed, clock, qr, attrs, ledger, client>>
    \/ \E p \in Procs : StreamWake(p) /\ UNCHANGED <<response, computed, clock, qr, attrs, ledger, client>>
    \/ \E p \in Procs : StreamClose(p) /\ UNCHANGED <<response, computed, clock, qr, attrs, ledger, client>>
    \/ NoStreamActive /\ Reconfigure /\ UNCHANGED <<stream, response, computed, clock, qr, attrs, ledger, client>>

SpecStream == Init /\ [][NextStream]_vars

\* A step of the coroutine behind an open stream: the engine call it awaits
\* goes on, or the call has ended and the generator takes its outcome.
StreamRuns(p) ==
    \/ CheckStep(p) /\ UNCHANGED <<stream, response, computed, clock, qr, attrs, ledger, client>>
    \/ StreamPolled(p) /\ UNCHANGED <<response, computed, clock, qr, attrs, ledger, client>>

\* The event loop keeps running a coroutine that can go on: acheck and the
\* generator around it are not left suspended for ever once the provider has
\* answered. Every such step changes the call.
SpecStreamLive ==
    SpecStream /\ \A p \in StreamProcs : WF_call(StreamRuns(p))

\* -------------------------------------------------------- httpx_error_hook

\* error_map: (status, errorCode) -> the error class raised.
error_map ==
    {<<400, "alreadyInProgress", "AlreadyInProgress">>,
     <<400, "invalidParameters", "InvalidParameters">>,
     <<401, "unauthorized", "Unauthorized">>,
     <<403, "unauthorized", "Unauthorized">>,
     <<404, "notFound", "NotFound">>,
     <<405, "methodNotAllowed", "MethodNotAllowed">>,
     <<408, "requestTimeout", "RequestTimeout">>,
     <<415, "unsupportedMediaType", "UnsupportedMediaType">>,
     <<500, "internalError", "InternalServerError">>,
     <<503, "maintenance", "ServiceUnavailable">>}

ErrorFor_ByCodeAlone(status, errorCode) ==
    IF \E e \in error_map : e[2] = errorCode
    THEN (CHOOSE e \in error_map : e[2] = errorCode)[3]
    ELSE "UnknownError"

\* error_map.get((exc.response.status_code, error_code), UnknownError)
ErrorFor(status, errorCode) ==
    IF \E e \in error_map : e[1] = status /\ e[2] = errorCode
    THEN (CHOOSE e \in error_map : e[1] = status /\ e[2] = errorCode)[3]
    ELSE "UnknownError"

\* The status codes tried: a success, the ones of error_map, and two that
\* error_map does not have.
HttpStatuses == {200, 400, 401, 403, 404, 405, 408, 415, 500, 503, 418, 502}

\* The errorCode values tried: none, the ones of error_map, and one that
\* error_map does not have.
ErrorCodes ==
    {None, "canceled"} \cup {e[2] : e \in error_map}

ClientOps == {"auth", "sign", "collect", "cancel"}

\* The statuses tried with a body that is JSON but not an object.
OtherJsonStatuses == {400, 503}

\* ------------------------------------------------- decoding collect answers

\* process_collect_response is called with a 2xx answer.
Decode(raw) ==
    /\ computed' = [fn |-> "process_collect_response", raw |-> raw,
                    out |-> process_collect_response(raw)]
    /\ UNCHANGED <<content, configACTIONS, uuids, inits, orders, pollable,
                   call, finalizeCount, deleteCount, cancelCount, polled,
                   stream, response, clock, qr, attrs, ledger, client>>

NextDecode == \E raw \in RawCollects : Decode(raw)

SpecDecode == Init /\ [][NextDecode]_vars

\* ------------------------------------------------- building order requests

\* A str | None argument carrying user data, by the number of bytes of its
\* UTF-8 encoding; the empty string has none.
NoData == [set |-> FALSE, bytes |-> 0]

Data(n) == [set |-> TRUE, bytes |-> n]

\* len(b64encode(value.encode())): four characters for every three bytes,
\* the last group padded.
b64encode_len(n) == 4 * ((n + 2) \div 3)

\* user_data_max_length of encode_user_data
user_data_max_length == 1500

\* _encode_user_data(40_000, "visible")
sign_visible_max_length == 40000

\* _encode_user_data(200_000, "non visible")
sign_non_visible_max_length == 200000

\* What an encoder gives: None, the encoded text (by its length), or
\* ValueError.
NotEncoded == [raised |-> FALSE, present |-> FALSE, length |-> 0]

TooLarge_AtCeiling(length, max_length) == length >= max_length

\* if length > max_length: raise ValueError
TooLarge(length, max_length) == length > max_length

\* encode_user_data, and the validator _encode_user_data returns: not value
\* holds for None and for the empty string.
encode_user_data(value, max_length) ==
    IF ~value.set \/ value.bytes = 0
    THEN NotEncoded
    ELSE IF TooLarge(b64encode_len(value.bytes), max_length)
         THEN [raised |-> TRUE, present |-> FALSE, length |-> 0]
         ELSE [raised |-> FALSE, present |-> TRUE,
               length |-> b64encode_len(value.bytes)]

\* A personal number is a string, kept as the sequence of its characters.
NoPersonalNumber == [set |-> FALSE, chars |-> <<>>]

PersonalNumberOf(chars) == [set |-> TRUE, chars |-> chars]

Repeat(ch, n) == [i \in 1 .. n |-> ch]

\* The characters str.isdigit accepts: the ASCII digits and the digits
\* of other scripts, of which SUPERSCRIPT TWO stands for all.
DigitChars ==
    {"0", "1", "2", "3", "4", "5", "6", "7", "8", "9", "U+00B2"}

isdigit(chars) == chars # <<>> /\ \A i \in DOMAIN chars : chars[i] \in DigitChars

\* personal_number_length of validate_personal_number
personal_number_length == 12

personal_number_valid_AnyLength(chars) == isdigit(chars)

\* validate_personal_number does not raise: len(value) is 12 and
\* value.isdigit() holds.
personal_number_valid(chars) ==
    Len(chars) = personal_number_length /\ isdigit(chars)

\* The personal numbers tried: the ones of the tests (13, 11 and 12 ones, 11
\* ones and an A), the empty string, a dash inside 12 and inside 13
\* characters, 12 digits that are not all the same, and 12 digits one of
\* which is not an ASCII digit.
PersonalNumbers ==
    {Repeat("1", 12), Repeat("1", 11), Repeat("1", 13), <<>>,
     [Repeat("1", 12) EXCEPT ![12] = "A"],
     [Repeat("1", 12) EXCEPT ![9] = "-"],
     [Repeat("1", 13) EXCEPT ![9] = "-"],
     [Repeat("9", 12) EXCEPT ![1] = "1", ![3] = "0"],
     [Repeat("1", 12) EXCEPT ![4] = "U+00B2"]}

\* Requirement | None
NoRequirement ==
    [set |-> FALSE, pin_code |-> FALSE, mrtd |-> FALSE, card_reader |-> None,
     certificate_policies |-> None, personal_number |-> NoPersonalNumber]

Requirements ==
    {NoRequirement} \cup
    [set : {TRUE}, pin_code : BOOLEAN, mrtd : BOOLEAN,
     card_reader : {None, "class1"},
     certificate_policies : {None, "1.2.3.4.5"},
     personal_number :
        {NoPersonalNumber} \cup {PersonalNumberOf(c) : c \in PersonalNumbers}]

\* The dict _build_requirement_data fills, by the keys it has.
EmptyFragment ==
    [pinCode |-> FALSE, mrtd |-> FALSE, cardReader |-> None,
     certificatePolicies |-> None, personalNumber |-> NoPersonalNumber]

\* return requirement or None
OrNone(fragment) ==
    IF fragment = EmptyFragment
    THEN [state |-> "omitted", value |-> EmptyFragment]
    ELSE [state |-> "set", value |-> fragment]

\* _build_requirement_data: the fields that are not None under their
\* provider names, None for an empty dict, ValueError from
\* validate_personal_number.
build_requirement_data(r) ==
    IF r.set /\ r.personal_number.set
        /\ ~personal_number_valid(r.personal_number.chars)
    THEN [raised |-> TRUE, option |-> OrNone(EmptyFragment)]
    ELSE [raised |-> FALSE,
          option |-> OrNone(
              IF ~r.set THEN EmptyFragment
              ELSE [pinCode |-> r.pin_code, mrtd |-> r.mrtd,
                    cardReader |-> r.card_reader,
                    certificatePolicies |-> r.certificate_policies,
                    personalNumber |-> r.personal_number])]

\* A key of the request body: left out, there with a value, or there with
\* None, which the JSON encoder writes as null.
Omitted(blank) == [state |-> "omitted", value |-> blank]

\* if option is not None: data[key] = option, for an encoder's result
DataOption(enc) ==
    IF enc.present THEN [state |-> "set", value |-> enc.length]
    ELSE Omitted(0)

\* "userVisibleData": _encode_user_data(...)(user_visible_data), in the dict
\* display of build_sign_request: the key is there whatever the result.
DataEntry(enc) ==
    IF enc.present THEN [state |-> "set", value |-> enc.length]
    ELSE [state |-> "null", value |-> 0]

\* if option is not None: data[key] = option, for a str | None argument
TextOption(text) ==
    IF text # None THEN [state |-> "set", value |-> text] ELSE Omitted(None)

NoBody ==
    [requirement |-> Omitted(EmptyFragment), userVisibleData |-> Omitted(0),
     userNonVisibleData |-> Omitted(0),
     userVisibleDataFormat |-> Omitted(None), returnUrl |-> Omitted(None)]

Built(req, visible, nonVisible, body) ==
    IF req.raised \/ visible.raised \/ nonVisible.raised
    THEN [raised |-> "ValueError", body |-> NoBody]
    ELSE [raised |-> None, body |-> body]

build_auth_request(a) ==
    LET req == build_requirement_data(a.requirement)
        visible == encode_user_data(a.user_visible_data, user_data_max_length)
        nonVisible ==
            encode_user_data(a.user_non_visible_data, user_data_max_length)
    IN Built(req, visible, nonVisible,
             [requirement |-> req.option,
              userVisibleData |-> DataOption(visible),
              userNonVisibleData |-> DataOption(nonVisible),
              userVisibleDataFormat |-> TextOption(a.user_visible_data_format),
              returnUrl |-> TextOption(a.return_url)])

build_sign_request(a) ==
    LET req == build_requirement_data(a.requirement)
        visible ==
            encode_user_data(a.user_visible_data, sign_visible_max_length)
        nonVisible ==
            encode_user_data(a.user_non_visible_data,
                             sign_non_visible_max_length)
    IN Built(req, visible, nonVisible,
             [requirement |-> req.option,
              userVisibleData |-> DataEntry(visible),
              userNonVisibleData |-> DataOption(nonVisible),
              userVisibleDataFormat |-> TextOption(a.user_visible_data_format),
              returnUrl |-> Omitted(None)])

\* The sizes of user data tried, in bytes: small ones, and the largest
\* accepted and the smallest rejected at each of the three ceilings.
VisibleSizes == {0, 1, 1125, 1126, 30000, 30001}

NonVisibleSizes == {0, 3, 1125, 1126, 150000, 150001}

\* The arguments of auth and sign; sign takes no return_url and its
\* user_visible_data is a str.
AuthArguments ==
    [requirement : Requirements,
     user_visible_data : {NoData} \cup {Data(n) : n \in VisibleSizes},
     user_non_visible_data : {NoData} \cup {Data(n) : n \in NonVisibleSizes},
     user_visible_data_format : {None, "simpleMarkdownV1"},
     return_url : {None, "https://example.com"}]

SignArguments ==
    [requirement : Requirements,
     user_visible_data : {Data(n) : n \in VisibleSizes},
     user_non_visible_data : {NoData} \cup {Data(n) : n \in NonVisibleSizes},
     user_visible_data_format : {None, "simpleMarkdownV1"},
     return_url : {None}]

\* SyncV60.auth, sign and their async twins: the body is built first and
\* posted only if building did not raise.
Requested(op, a) ==
    LET built == IF op = "auth" THEN build_auth_request(a)
                 ELSE build_sign_request(a)
    IN [fn |-> op, args |-> a, raised |-> built.raised, body |-> built.body,
        posted |-> built.raised = None]

Request(op, a) ==
    /\ computed' = Requested(op, a)
    /\ UNCHANGED <<content, configACTIONS, uuids, inits, orders, pollable,
                   call, finalizeCount, deleteCount, cancelCount, polled,
                   stream, response, clock, qr, attrs, ledger, client>>

\* The client method returns or raises, and another may be called.
RequestDone ==
    /\ computed.fn \in {"auth", "sign"}
    /\ computed' = NoComputation
    /\ UNCHANGED <<content, configACTIONS, uuids, inits, orders, pollable,
                   call, finalizeCount, deleteCount, cancelCount, polled,
                   stream, response, clock, qr, attrs, ledger, client>>

\* One client method at a time.
NextRequest ==
    \/ computed = NoComputation /\ \E a \in AuthArguments : Request("auth", a)
    \/ computed = NoComputation /\ \E a \in SignArguments : Request("sign", a)
    \/ RequestDone

SpecRequest == Init /\ [][NextRequest]_vars

\* ------------------------------------------------------------- QR codes

\* The decimal digits, by value.
DigitOf(d) == <<"0", "1", "2", "3", "4", "5", "6", "7", "8", "9">>[d + 1]

RECURSIVE DigitsOf(_)
DigitsOf(n) ==
    IF n < 10 THEN <<DigitOf(n)>>
    ELSE DigitsOf(n \div 10) \o <<DigitOf(n % 10)>>

\* str(n) of an int, as the sequence of its characters.
str(n) == IF n < 0 THEN <<"-">> \o DigitsOf(-n) ELSE DigitsOf(n)

int_Floor(ticks) == ticks \div TicksPerSecond

\* int(x) of the float x = ticks / TicksPerSecond seconds: the fraction is
\* cut off, towards zero.
int(ticks) ==
    IF ticks >= 0 THEN ticks \div TicksPerSecond
    ELSE -((-ticks) \div TicksPerSecond)

\* hmac.new(key, msg, hashlib.sha256).hexdigest(): a text fixed by the key
\* and the message.
hmac_hexdigest(key, msg) == [digest |-> "sha256", key |-> key, msg |-> msg]

\* generate_qr_code at the instant now: the four parts that "." joins.
generate_qr_code(order, now) ==
    LET qr_time == str(int(now - order.start_time))
    IN [prefix |-> "bankid", qr_start_token |-> order.qr_start_token,
        qr_time |-> qr_time,
        mac |-> hmac_hexdigest(order.qr_start_secret, qr_time)]

isoformat_WholeSeconds(t) == <<t \div TicksPerSecond, 0>>

\* datetime.isoformat(): the seconds and the fraction of a second, written
\* out separately.
isoformat(t) == <<t \div TicksPerSecond, t % TicksPerSecond>>

\* datetime.fromisoformat(text)
fromisoformat(text) == text[1] * TicksPerSecond + text[2]

\* Transaction.as_dict, the fields generate_qr_code reads.
as_dict(order) ==
    [qr_start_token |-> order.qr_start_token,
     qr_start_secret |-> order.qr_start_secret,
     start_time |-> isoformat(order.start_time)]

\* Transaction.from_dict
from_dict(obj) ==
    [qr_start_token |-> obj.qr_start_token,
     qr_start_secret |-> obj.qr_start_secret,
     start_time |-> fromisoformat(obj.start_time)]

\* The qrStartToken and qrStartSecret values the provider may answer.
QrStartTokens == {"token-a", "token-b"}

QrStartSecrets == {"secret-a", "secret-b"}

\* The wall clock goes on.
Tick ==
    /\ clock < MaxTime
    /\ clock' = clock + 1
    /\ UNCHANGED <<content, configACTIONS, uuids, inits, orders, pollable,
                   call, finalizeCount, deleteCount, cancelCount, polled,
                   stream, response, computed, qr, attrs, ledger, client>>

\* process_order_response stamps start_time with the clock, and the
\* transaction is saved as CacheStorage saves it, as a dict.
OrderDecoded(token, secret) ==
    LET order == [qr_start_token |-> token, qr_start_secret |-> secret,
                  start_time |-> clock]
    IN /\ ~qr.saved
       /\ qr' = [order |-> order, stored |-> as_dict(order), saved |-> TRUE,
                 codes |-> <<>>]
       /\ UNCHANGED <<content, configACTIONS, uuids, inits, orders, pollable,
                      call, finalizeCount, deleteCount, cancelCount, polled,
                      stream, response, computed, clock, attrs, ledger, client>>

\* A check of the pending transaction: it is loaded and a QR code is made
\* with the clock of that moment.
QrGenerated ==
    /\ qr.saved
    /\ Len(qr.codes) < MaxCodes
    /\ qr' = [qr EXCEPT !.codes =
                Append(@, [at |-> clock,
                           code |-> generate_qr_code(from_dict(qr.stored),
                                                     clock)])]
    /\ UNCHANGED <<content, configACTIONS, uuids, inits, orders, pollable,
                   call, finalizeCount, deleteCount, cancelCount, polled,
                   stream, response, computed, clock, attrs, ledger, client>>

NextQr ==
    \/ Tick
    \/ \E token \in QrStartTokens, secret \in QrStartSecrets :
            OrderDecoded(token, secret)
    \/ QrGenerated

SpecQr == Init /\ [][NextQr]_vars

\* The instants tried as now and as start_time, either of them the earlier.
Instants == 0 .. MaxInstant

\* generate_qr_code is called with an order at some instant.
Generate(order, now) ==
    /\ computed' = [fn |-> "generate_qr_code", order |-> order, now |-> now,
                    out |-> generate_qr_code(order, now)]
    /\ UNCHANGED <<content, configACTIONS, uuids, inits, orders, pollable,
                   call, finalizeCount, deleteCount, cancelCount, polled,
                   stream, response, clock, qr, attrs, ledger, client>>

NextElapsed ==
    \E token \in QrStartTokens, secret \in QrStartSecrets,
       start_time \in Instants, now \in Instants :
        Generate([qr_start_token |-> token, qr_start_secret |-> secret,
                  start_time |-> start_time], now)

SpecElapsed == Init /\ [][NextElapsed]_vars

\* ------------------------------------------------- the action registry

\* Action types: the class, the base class it derives from and its name.
\* Two auth actions and an async auth action share a name, a sign action has
\* that name too, and one type derives from Action alone.
ActionTypes ==
    {[cls |-> "LoginA", base |-> "AuthAction", name |-> "LOGIN"],
     [cls |-> "LoginB", base |-> "AuthAction", name |-> "LOGIN"],
     [cls |-> "AsyncLogin", base |-> "AsyncAuthAction", name |-> "LOGIN"],
     [cls |-> "SignLogin", base |-> "SignAction", name |-> "LOGIN"],
     [cls |-> "Plain", base |-> "Action", name |-> "PAY"]}

\* The action types BANKID_SDK_ACTIONS may name: load_actions knows the
\* synchronous base classes only.
LoadableTypes == {a \in ActionTypes : a.base # "AsyncAuthAction"}

\* The lists of at most MaxActions of the given action types.
ActionLists(types) ==
    UNION {[1 .. n -> types] : n \in 0 .. MaxActions}

\* "auth" if issubclass(action, AuthAction) or issubclass(action,
\* AsyncAuthAction) else "sign"
configure_operation(a) ==
    IF a.base \in {"AuthAction", "AsyncAuthAction"} THEN "auth" ELSE "sign"

\* A dict entry is set: d[key] = cls, whatever was under the key before.
SetItem(registry, operation, name, cls) ==
    {x \in registry : ~(x.operation = operation /\ x.name = name)}
        \cup {[operation |-> operation, name |-> name, cls |-> cls]}

RECURSIVE configure_actions(_)
\* The dict comprehension of configure: one entry per action, in order.
configure_actions(actions) ==
    IF actions = <<>> THEN {}
    ELSE LET a == actions[Len(actions)]
         IN SetItem(configure_actions(SubSeq(actions, 1, Len(actions) - 1)),
                    configure_operation(a), a.name, a.cls)

RECURSIVE load_actions(_)
\* load_actions: TypeError for a type that is neither an AuthAction nor a
\* SignAction, ValueError for a key that is taken, else the entry is set.
load_actions(actions) ==
    IF actions = <<>> THEN [raised |-> None, actions |-> {}]
    ELSE LET a == actions[Len(actions)]
             before == load_actions(SubSeq(actions, 1, Len(actions) - 1))
             operation == IF a.base = "AuthAction" THEN "auth" ELSE "sign"
         IN CASE before.raised # None -> before
              [] a.base \notin {"AuthAction", "SignAction"} ->
                    [raised |-> "TypeError", actions |-> {}]
              [] \E x \in before.actions :
                    x.operation = operation /\ x.name = a.name ->
                    [raised |-> "ValueError", actions |-> {}]
              [] OTHER ->
                    [raised |-> None,
                     actions |-> SetItem(before.actions, operation, a.name,
                                         a.cls)]

\* configure(actions=...) is called.
Configured(actions) ==
    /\ computed' = [fn |-> "configure", actions |-> actions,
                    raised |-> None,
                    registry |-> configure_actions(actions)]
    /\ UNCHANGED <<content, configACTIONS, uuids, inits, orders, pollable,
                   call, finalizeCount, deleteCount, cancelCount, polled,
                   stream, response, clock, qr, attrs, ledger, client>>

\* load_actions() is called with BANKID_SDK_ACTIONS naming the actions.
Loaded(actions) ==
    /\ computed' = [fn |-> "load_actions", actions |-> actions,
                    raised |-> load_actions(actions).raised,
                    registry |-> load_actions(actions).actions]
    /\ UNCHANGED <<content, configACTIONS, uuids, inits, orders, pollable,
                   call, finalizeCount, deleteCount, cancelCount, polled,
                   stream, response, clock, qr, attrs, ledger, client>>

NextRegistry ==
    \/ \E actions \in ActionLists(ActionTypes) : Configured(actions)
    \/ \E actions \in ActionLists(LoadableTypes) : Loaded(actions)

SpecRegistry == Init /\ [][NextRegistry]_vars

\* What the provider may answer to a request, or a fault of the transport
\* (httpx.NetworkError and the other httpx.HTTPError that carry no response).
\* The body is a JSON object with or without errorCode, a JSON value that is
\* not an object (a list, a string, a number, null), or not JSON at all.
Responses ==
    [op : ClientOps, fault : {FALSE}, status : HttpStatuses, json : {TRUE},
     object : {TRUE}, errorCode : ErrorCodes, raised : {None},
     error_code : {None}, carried : {FALSE}, payload : {None}]
    \cup [op : ClientOps, fault : {FALSE}, status : OtherJsonStatuses,
          json : {TRUE}, object : {FALSE}, errorCode : {None},
          raised : {None}, error_code : {None}, carried : {FALSE},
          payload : {None}]
    \cup [op : ClientOps, fault : BOOLEAN, status : {500}, json : {FALSE},
          object : {FALSE}, errorCode : {None}, raised : {None},
          error_code : {None}, carried : {FALSE}, payload : {None}]

\* UnknownError and the other subclasses of BankIDAPIError.
APIErrors == {"UnknownError"} \cup {e[3] : e \in error_map}

Raised_HTTPErrorFirst(r) ==
    CASE r.fault \/ r.status # 200 -> "BankIDHTTPError"
      [] OTHER -> None

\* response.raise_for_status() under httpx_error_hook: the error the client
\* method raises, None when it raises nothing.
\* The except clauses are tried in order, httpx.HTTPStatusError before its
\* base httpx.HTTPError; data.get on a JSON value that is not an object
\* raises AttributeError inside the first handler, which nothing catches.
Raised(r) ==
    CASE r.fault -> "BankIDHTTPError"
      [] r.status = 200 -> None
      [] ~r.json -> "UnknownError"
      [] ~r.object -> "AttributeError"
      [] OTHER -> ErrorFor(r.status, r.errorCode)

\* error_code=error_code or "unknownError"
RaisedErrorCode(r) ==
    CASE r.fault \/ r.status = 200 -> None
      [] ~r.json \/ r.errorCode = None -> "unknownError"
      [] ~r.object -> None
      [] OTHER -> r.errorCode

\* response=exc.response: the error raised has the response on it.
Carried(r) == Raised(r) \in APIErrors

\* json=data, the default None when the body could not be parsed.
Payload(r) ==
    IF Raised(r) \in APIErrors /\ r.json THEN "data" ELSE None

\* A client method posts a request and handles the answer.
ClientCall(r) ==
    /\ response' = [r EXCEPT !.raised = Raised(r),
                             !.error_code = RaisedErrorCode(r),
                             !.carried = Carried(r),
                             !.payload = Payload(r)]
    /\ UNCHANGED <<content, configACTIONS, uuids, inits, orders, pollable,
                   call, finalizeCount, deleteCount, cancelCount, polled,
                   stream, computed, clock, qr, attrs, ledger, client>>

NextClient == \E r \in Responses : ClientCall(r)

SpecClient == Init /\ [][NextClient]_vars

\* ------------------------------------------------------------ the config

\* Python values of the kinds configure is given and config holds.
PyNone == [kind |-> "NoneType", v |-> "None"]

Py(kind, v) == [kind |-> kind, v |-> v]

\* MappingProxyType({...}) built of the given iterable of action types; the
\* entries are what configure_actions makes of the list.
MappingProxyType(actions) == Py("MappingProxyType", actions.v)

\* The parameter of configure that sets the attribute.
configure_parameter ==
    [a \in attrnames |->
        CASE a = "API_BASE_URL" -> "api_base_url"
          [] a = "STORAGE" -> "storage"
          [] a = "ACTIONS" -> "actions"
          [] a = "CERT" -> "certificate"
          [] a = "CA_CERT" -> "ca_cert"]

\* The arguments configure may be called with, None the default of each.
ConfigureArguments ==
    [api_base_url : {PyNone, Py("str", "url-1"), Py("str", "url-2")},
     storage : {PyNone, Py("Storage", "storage-1")},
     actions : {PyNone, Py("list", "actions-1")},
     certificate : {PyNone, Py("tuple", "cert-1")},
     ca_cert : {PyNone, Py("str", "ca-1")}]

\* What configure assigns to the attribute for an argument that is not None.
Assigned(a, arg) == IF a = "ACTIONS" THEN MappingProxyType(arg) ELSE arg

configure_OmittedUnsets(held, args) ==
    [a \in attrnames |->
        IF args[configure_parameter[a]] # PyNone
        THEN ValueSet(Assigned(a, args[configure_parameter[a]]))
        ELSE NOT_SET]

\* configure: if <parameter> is not None: config.<ATTR> = <parameter>, for
\* each of the five; LazyAttr.__set__ keeps the value.
configure(held, args) ==
    [a \in attrnames |->
        IF args[configure_parameter[a]] # PyNone
        THEN ValueSet(Assigned(a, args[configure_parameter[a]]))
        ELSE held[a]]

LazyAttr_get_Unnamed(held, a) ==
    IF ~held[a].set
    THEN [raised |-> "ConfigurationError", message |-> None, out |-> PyNone]
    ELSE [raised |-> None, message |-> None, out |-> held[a].value]

\* LazyAttr.__get__ on the config instance: ConfigurationError("No value
\* configured for <attrname>") without a value, else the value.
LazyAttr_get(held, a) ==
    IF ~held[a].set
    THEN [raised |-> "ConfigurationError", message |-> a, out |-> PyNone]
    ELSE [raised |-> None, message |-> None, out |-> held[a].value]

\* LazyAttr.reset: del self.value, a missing value suppressed.
LazyAttr_reset(held, a) == [held EXCEPT ![a] = NOT_SET]

\* The argument most recently given for each attribute, None for one never
\* given or reset since.
Given == IF computed.fn \in {"configure", "__get__", "reset"}
         THEN computed.given
         ELSE [a \in attrnames |-> PyNone]

NoArguments ==
    [api_base_url |-> PyNone, storage |-> PyNone, actions |-> PyNone,
     certificate |-> PyNone, ca_cert |-> PyNone]

\* bankid_sdk.configure(...) is called.
ConfigureCalled(args) ==
    /\ attrs' = configure(attrs, args)
    /\ computed' =
        [fn |-> "configure", args |-> args, attr |-> None, before |-> attrs,
         raised |-> None, message |-> None, out |-> PyNone,
         given |-> [a \in attrnames |->
                        IF args[configure_parameter[a]] # PyNone
                        THEN args[configure_parameter[a]]
                        ELSE Given[a]]]
    /\ UNCHANGED <<content, configACTIONS, uuids, inits, orders, pollable,
                   call, finalizeCount, deleteCount, cancelCount, polled,
                   stream, response, clock, qr, ledger, client>>

\* config.<ATTR> is read.
AttrRead(a) ==
    /\ computed' =
        [fn |-> "__get__", args |-> NoArguments, attr |-> a,
         before |-> attrs,
         raised |-> LazyAttr_get(attrs, a).raised,
         message |-> LazyAttr_get(attrs, a).message,
         out |-> LazyAttr_get(attrs, a).out,
         given |-> Given]
    /\ UNCHANGED <<content, configACTIONS, uuids, inits, orders, pollable,
                   call, finalizeCount, deleteCount, cancelCount, polled,
                   stream, response, clock, qr, attrs, ledger, client>>

\* The LazyAttr of an attribute is reset.
AttrReset(a) ==
    /\ attrs' = LazyAttr_reset(attrs, a)
    /\ computed' =
        [fn |-> "reset", args |-> NoArguments, attr |-> a, before |-> attrs,
         raised |-> None, message |-> None, out |-> PyNone,
         given |-> [Given EXCEPT ![a] = PyNone]]
    /\ UNCHANGED <<content, configACTIONS, uuids, inits, orders, pollable,
                   call, finalizeCount, deleteCount, cancelCount, polled,
                   stream, response, clock, qr, ledger, client>>

NextConfig ==
    \/ \E args \in ConfigureArguments : ConfigureCalled(args)
    \/ \E a \in attrnames : AttrRead(a)
    \/ \E a \in attrnames : AttrReset(a)

SpecConfig == Init /\ [][NextConfig]_vars

\* ----------------------------------------------------------- MemoryStorage

\* del content[key]: KeyError for a key that is not there.
del_item(store, key) ==
    IF key \in DOMAIN store
    THEN [raised |-> None, store |-> Delete(store, key)]
    ELSE [raised |-> "KeyError", store |-> store]

MemoryStorage_delete_Unsuppressed(store, key) == del_item(store, key)

\* MemoryStorage.delete: with suppress(KeyError): del self.content[key]
MemoryStorage_delete(store, key) ==
    [del_item(store, key) EXCEPT !.raised =
        IF @ = "KeyError" THEN None ELSE @]

\* The transactions handed to save.
Transactions ==
    {[NoTx EXCEPT !.transaction_id = 1, !.order_ref = 1,
                  !.operation = "auth", !.action_name = a] :
        a \in ActionNames}

\* storage.save(obj) returns the key it minted.
StorageSave(obj) ==
    /\ uuids < MaxSaves
    /\ LET key == StoreKey(uuids)
       IN /\ uuids' = key
          /\ content' = Save(content, key, obj)
          /\ ledger' = [ledger EXCEPT !.saved = Save(@, key, obj)]
          /\ computed' = [fn |-> "save", key |-> key, out |-> obj,
                          raised |-> None, before |-> content]
    /\ UNCHANGED <<configACTIONS, inits, orders, pollable,
                   call, finalizeCount, deleteCount, cancelCount, polled,
                   stream, response, clock, qr, attrs, client>>

\* storage.load(key)
StorageLoad(key) ==
    /\ computed' = [fn |-> "load", key |-> key, out |-> Load(content, key),
                    raised |-> None, before |-> content]
    /\ UNCHANGED <<content, configACTIONS, uuids, inits, orders, pollable,
                   call, finalizeCount, deleteCount, cancelCount, polled,
                   stream, response, clock, qr, attrs, ledger, client>>

\* storage.delete(key)
StorageDelete(key) ==
    /\ content' = MemoryStorage_delete(content, key).store
    /\ ledger' = [ledger EXCEPT !.deleted = @ \cup {key}]
    /\ computed' = [fn |-> "delete", key |-> key, out |-> NoTx,
                    raised |-> MemoryStorage_delete(content, key).raised,
                    before |-> content]
    /\ UNCHANGED <<configACTIONS, uuids, inits, orders, pollable,
                   call, finalizeCount, deleteCount, cancelCount, polled,
                   stream, response, clock, qr, attrs, client>>

\* A key given to load or delete is one save has returned or one it never
\* returns: a uuid4 yet to be minted cannot be given.
NextStorage ==
    \/ \E obj \in Transactions : StorageSave(obj)
    \/ \E key \in KnownIDs : StorageLoad(key)
    \/ \E key \in KnownIDs : StorageDelete(key)

SpecStorage == Init /\ [][NextStorage]_vars

\* ------------------------------------------- Transaction, as CacheStorage
\* keeps it

\* str(x): a str is returned as it is, another value as its text.
py_str(x) == IF x.kind = "str" THEN x ELSE Py("str", x.v)

\* Transaction.as_dict: SerializedTransaction(...), start_time as text.
Transaction_as_dict(t) ==
    [order_ref |-> t.order_response.order_ref,
     auto_start_token |-> t.order_response.auto_start_token,
     qr_start_token |-> t.order_response.qr_start_token,
     qr_start_secret |-> t.order_response.qr_start_secret,
     start_time |-> isoformat(t.order_response.start_time),
     operation |-> t.operation,
     action_name |-> t.action_name,
     context |-> t.context]

Transaction_from_dict_WithoutContext(obj) ==
    [order_response |->
        [order_ref |-> py_str(obj.order_ref),
         auto_start_token |-> py_str(obj.auto_start_token),
         qr_start_token |-> py_str(obj.qr_start_token),
         qr_start_secret |-> py_str(obj.qr_start_secret),
         start_time |-> fromisoformat(obj.start_time)],
     operation |-> py_str(obj.operation),
     action_name |-> py_str(obj.action_name),
     context |-> None]

\* Transaction.from_dict
Transaction_from_dict(obj) ==
    [order_response |->
        [order_ref |-> py_str(obj.order_ref),
         auto_start_token |-> py_str(obj.auto_start_token),
         qr_start_token |-> py_str(obj.qr_start_token),
         qr_start_secret |-> py_str(obj.qr_start_secret),
         start_time |-> fromisoformat(obj.start_time)],
     operation |-> py_str(obj.operation),
     action_name |-> py_str(obj.action_name),
     context |-> obj.context]

\* The transactions init saves: an order response as process_order_response
\* decodes it, every field a str and start_time an instant of the clock, the
\* operation, the action's name and the context initialize returned.
SavedTransactions ==
    [order_response :
        [order_ref : {Py("str", "ref-1")},
         auto_start_token : {Py("str", "auto-1"), Py("str", "auto-2")},
         qr_start_token : {Py("str", t) : t \in QrStartTokens},
         qr_start_secret : {Py("str", s) : s \in QrStartSecrets},
         start_time : Instants],
     operation : {Py("str", "auth"), Py("str", "sign")},
     action_name : {Py("str", n) : n \in ActionNames},
     context : {None, "ctxA"}]

\* CacheStorage.save sets obj.as_dict() in the cache, CacheStorage.load makes
\* a Transaction of what the cache returns.
CacheRoundTrip(t) ==
    /\ computed' = [fn |-> "CacheStorage", t |-> t,
                    cached |-> Transaction_as_dict(t),
                    out |-> Transaction_from_dict(Transaction_as_dict(t))]
    /\ UNCHANGED <<content, configACTIONS, uuids, inits, orders, pollable,
                   call, finalizeCount, deleteCount, cancelCount, polled,
                   stream, response, clock, qr, attrs, ledger, client>>

NextRoundTrip == \E t \in SavedTransactions : CacheRoundTrip(t)

SpecRoundTrip == Init /\ [][NextRoundTrip]_vars

\* ------------------------------------------------- exception hooks of a client

\* Additional exception handlers, context managers made by the caller: one
\* catches every exception and raises it again, one turns a BankIDAPIError
\* into an exception of its own and lets the others through.
Handlers == {"reraise", "convert"}

\* The default hook, httpx_error_hook().
httpx_error_hook == "httpx_error_hook"

\* client.handle(hook): the hook is queued on the client's _exc_hooks.
Handle(h) ==
    /\ Len(client.exc_hooks) < MaxHandlers
    /\ client' = [client EXCEPT !.exc_hooks = Append(@, h),
                                !.registered = Append(@, h)]
    /\ UNCHANGED <<content, configACTIONS, uuids, inits, orders, pollable,
                   call, finalizeCount, deleteCount, cancelCount, polled,
                   stream, response, computed, clock, qr, attrs, ledger>>

get_exc_hooks_KeepsQueue(queue) ==
    [hooks |-> queue \o <<httpx_error_hook>>, left |-> queue]

\* get_exc_hooks: each queued hook is popped from the left and yielded, then
\* the default httpx hook: what is yielded, and what is left on the client.
get_exc_hooks(queue) ==
    [hooks |-> queue \o <<httpx_error_hook>>, left |-> <<>>]

\* What leaves a hook's with-block when the exception is thrown into it.
HookRaises(h, exc) ==
    CASE exc = None -> None
      [] h = "convert" /\ exc \in APIErrors -> "CustomException"
      [] OTHER -> exc

RECURSIVE Unwind(_, _, _)
\* context_bundle: the ExitStack leaves the hooks entered in reverse order,
\* each one given what the one inside it raised.
Unwind(hooks, exc, seen) ==
    IF hooks = <<>> THEN [raised |-> exc, seen |-> seen]
    ELSE LET h == hooks[Len(hooks)]
         IN Unwind(SubSeq(hooks, 1, Len(hooks) - 1), HookRaises(h, exc),
                   IF exc # None
                   THEN Append(seen, [hook |-> h, exc |-> exc])
                   ELSE seen)

\* The answers tried on a client with handlers: collect answered with 200,
\* with an error that error_map has, with an error body that is a JSON list,
\* with one that is not JSON, and a transport fault.
HookAnswers ==
    {r \in Responses : /\ r.op = "collect"
                       /\ r.status \in {200, 400, 500}
                       /\ r.errorCode \in {None, "alreadyInProgress"}}

\* A client method under handle_exception is called and the provider answers:
\* the hooks of get_exc_hooks are entered in order, the method posts, and
\* an error goes out through the hooks, the httpx hook first.
HookedCall(r) ==
    /\ client.calls < MaxClientCalls
    /\ LET got == get_exc_hooks(client.exc_hooks)
           out == Unwind(SubSeq(got.hooks, 1, Len(got.hooks) - 1),
                         Raised(r), <<>>)
       IN client' = [client EXCEPT !.exc_hooks = got.left,
                                   !.calls = @ + 1,
                                   !.due = client.exc_hooks,
                                   !.upto = Len(client.registered),
                                   !.entered = got.hooks,
                                   !.seen = out.seen,
                                   !.raised = out.raised,
                                   !.answer = r]
    /\ UNCHANGED <<content, configACTIONS, uuids, inits, orders, pollable,
                   call, finalizeCount, deleteCount, cancelCount, polled,
                   stream, response, computed, clock, qr, attrs, ledger>>

NextHooks ==
    \/ \E h \in Handlers : Handle(h)
    \/ \E r \in HookAnswers : HookedCall(r)

SpecHooks == Init /\ [][NextHooks]_vars

\* ------------------------------------------ check and acheck on one input

\* What is given to one call of check or acheck besides the registry: the
\* storage, the id, what client.collect answers (a result, or an error it
\* raises), and what the action's finalize does when it is called.
StoredFor(action) ==
    [NoTx EXCEPT !.transaction_id = 1, !.order_ref = 1,
                 !.operation = "auth", !.action_name = action,
                 !.context = "ctxA"]

ModeStores ==
    {EmptyStore} \cup {Save(EmptyStore, 1, StoredFor(a)) : a \in ActionNames}

ModeAnswers ==
    CollectResults \cup {[kind |-> k, hint |-> None] : k \in ClientErrors}

ModeFinalizes ==
    {[raises |-> FALSE, value |-> v, detail |-> None, status |-> None] :
        v \in FinalizeValues}
    \cup {[raises |-> TRUE, value |-> None, detail |-> d, status |-> None] :
            d \in Details}

ModeInputs ==
    [store : ModeStores, tid : {0, 1}, answer : ModeAnswers,
     fin : ModeFinalizes]

\* The call as it ends by its return statement.
Returned(c) ==
    [c EXCEPT !.pc = "done", !.ret = [@ EXCEPT !.qr_code = QrCode(c.result)]]

\* The finalize step of a completed order: the action is looked up, and
\* finalize returns or raises.
Finalized(c, keys, fin) ==
    IF ActionKey(c.tx) \notin keys
    THEN LET m == ActionMissing(c)
         IN IF m.pc = "done" THEN m ELSE Returned(m)
    ELSE LET f == [c EXCEPT !.found = "found",
                            !.finCtx = FinalizeContext(c.tx),
                            !.finKey = ActionKey(c.tx),
                            !.events = Append(@, "finalize")]
         IN IF fin.raises
            THEN FinalizeRaised(
                    [f EXCEPT !.finExc = [kind |-> "FinalizeFailed",
                                          detail |-> fin.detail,
                                          status |-> fin.status]],
                    FinalizeFailed(fin.detail, fin.status))
            ELSE Returned(
                    [f EXCEPT !.finRet = fin.value,
                              !.ret = [@ EXCEPT !.finalize_data =
                                          FinalizeData(c.op, fin.value)]])

\* One whole call of check or of acheck, its steps taken one after the
\* other with no other caller in between: the call as it ends, and the
\* storage it leaves.
Ran(op, keys, g) ==
    LET loaded == [Idle EXCEPT !.op = op, !.tid = g.tid, !.pre = g.store,
                               !.tx = Load(g.store, g.tid),
                               !.events = <<"load">>]
        asked == [loaded EXCEPT
                    !.events = Append(@, "collect"),
                    !.requests = Append(@, Posted("collect",
                                                  loaded.tx.order_ref))]
        answered == [asked EXCEPT !.result = g.answer,
                                  !.answer = g.answer.kind]
        deleted == IF IsTerminal(g.answer)
                   THEN [answered EXCEPT
                            !.removed = g.tid \in DOMAIN g.store,
                            !.events = Append(@, "delete")]
                   ELSE answered
        left == IF IsTerminal(g.answer) THEN Delete(g.store, g.tid)
                                        ELSE g.store
    IN CASE loaded.tx = NoTx ->
                [call |-> CheckMissing(loaded), content |-> g.store]
         [] loaded.tx # NoTx /\ g.answer.kind \in ClientErrors ->
                [call |-> CollectFailed(
                            [asked EXCEPT !.thrown = g.answer.kind],
                            Exc(g.answer.kind)),
                 content |-> g.store]
         [] OTHER ->
                [call |-> IF ShouldFinalize(deleted)
                          THEN Finalized(deleted, configACTIONS, g.fin)
                          ELSE Returned(deleted),
                 content |-> left]

\* check and acheck are each called on the same input.
BothModesRun(g) ==
    /\ computed = NoComputation
    /\ computed' = [fn |-> "check, acheck", given |-> g,
                    check |-> Ran("check", configACTIONS, g),
                    acheck |-> Ran("acheck", configACTIONS, g)]
    /\ UNCHANGED <<content, configACTIONS, uuids, inits, orders, pollable,
                   call, finalizeCount, deleteCount, cancelCount, polled,
                   stream, response, clock, qr, attrs, ledger, client>>

\* The two outcomes have been looked at.
BothModesCompared ==
    /\ computed # NoComputation
    /\ computed' = NoComputation
    /\ UNCHANGED <<content, configACTIONS, uuids, inits, orders, pollable,
                   call, finalizeCount, deleteCount, cancelCount, polled,
                   stream, response, clock, qr, attrs, ledger, client>>

NextModes ==
    \/ \E g \in ModeInputs : BothModesRun(g)
    \/ BothModesCompared

SpecModes == Init /\ [][NextModes]_vars

\* ------------------------------------------------------------- properties

Has(seq, e) == \E i \in 1 .. Len(seq) : seq[i] = e

IsCheck(c) == c.op \in {"check", "acheck"}

NoCallInProgress == \A p \in Procs : call[p].pc \in {"idle", "done"}

StoredOrders == {content[id].order_ref : id \in DOMAIN content}

\* C1: a check of a transaction_id that is not in storage raises
\* TransactionExpired; its only step is the load, so it makes no collect call
\* and no finalize call, and storage is as it was when the call began.
C1_MissingCheckExpires ==
    \A p \in Procs :
        LET c == call[p] IN
        (c.op = "check" /\ c.pc = "done" /\ c.tid \notin DOMAIN c.pre) =>
            /\ c.raised = Exc("TransactionExpired")
            /\ c.events = <<"load">>
            /\ content = c.pre

C1_Witness ==
    \E p \in Procs :
        /\ call[p].op = "check" /\ call[p].pc = "done"
        /\ call[p].tid \notin DOMAIN call[p].pre
        /\ call[p].tid # 0
        /\ call[p].pre # EmptyStore

\* C2: when a check (or acheck) of a stored transaction has got a terminal
\* collect result, complete or failed, the transaction is not in storage once
\* the call has returned or raised, whatever finalize did and whether or not
\* the action was registered.
C2_TerminalResultConsumes ==
    \A p \in Procs :
        LET c == call[p] IN
        (IsCheck(c) /\ c.pc = "done" /\ c.tx # NoTx
            /\ c.result.kind \in {"complete", "failed"}) =>
            c.tid \notin DOMAIN content

C2_Witness ==
    \E p \in Procs :
        /\ IsCheck(call[p]) /\ call[p].pc = "done"
        /\ call[p].tid \in DOMAIN call[p].pre
        /\ call[p].result.kind = "failed"
        /\ call[p].tid \notin DOMAIN content

\* C3: in one check the steps come in the order load, collect, delete,
\* finalize: when finalize is about to be invoked for a completed order the
\* transaction is already out of storage, and after a finalize that raised
\* it is still out of storage.
C3_DeleteBeforeFinalize ==
    \A p \in Procs :
        LET c == call[p] IN
        IsCheck(c) =>
            /\ (c.pc = "finalize" /\ c.result.kind = "complete") =>
                    /\ c.events = <<"load", "collect", "delete">>
                    /\ c.tid \notin DOMAIN content
            /\ Has(c.events, "finalize") =>
                    /\ c.events = <<"load", "collect", "delete", "finalize">>
                    /\ c.tid \notin DOMAIN content
            /\ c.finExc # NoExc => c.tid \notin DOMAIN content

C3_Witness ==
    \E p \in Procs :
        /\ IsCheck(call[p]) /\ call[p].pc = "done"
        /\ call[p].finExc.kind = "FinalizeFailed"
        /\ call[p].events = <<"load", "collect", "delete", "finalize">>
        /\ call[p].tid \in DOMAIN call[p].pre
        /\ call[p].tid \notin DOMAIN content

\* C4: a FinalizeFailed(detail, status) raised by the action's finalize is the
\* exception the check ends with: the same kind, the same status, and the
\* same detail, "Completion failed" standing for a detail that was not given.
C4_FinalizeFailedPropagates ==
    \A p \in Procs :
        LET c == call[p] IN
        (IsCheck(c) /\ c.finExc # NoExc) =>
            /\ c.pc = "done"
            /\ c.raised.kind = "FinalizeFailed"
            /\ c.raised.status = c.finExc.status
            /\ c.raised.detail = IF c.finExc.detail = None
                                 THEN "Completion failed"
                                 ELSE c.finExc.detail

C4_Witness ==
    \E p \in Procs :
        /\ call[p].op = "check" /\ call[p].pc = "done"
        /\ call[p].finExc = [kind |-> "FinalizeFailed", detail |-> None,
                             status |-> "403"]
        /\ call[p].raised.detail = "Completion failed"

\* C5: with calls one after the other, finalize is invoked only in a check
\* whose collect result is complete, at most once per transaction, and the
\* engine deletes each transaction at most once.
C5_FinalizeAndDeleteAtMostOnce ==
    /\ \A id \in IDs : finalizeCount[id] <= 1 /\ deleteCount[id] <= 1
    /\ \A p \in Procs :
            Has(call[p].events, "finalize") =>
                IsCheck(call[p]) /\ call[p].result.kind = "complete"

C5_Witness ==
    \E id \in IDs :
        /\ finalizeCount[id] = 1 /\ deleteCount[id] = 1
        /\ Quiescent
        /\ \E other \in DOMAIN content : deleteCount[other] = 0

\* C6: a check that gets a complete result for a transaction whose
\* (operation, action_name) is not registered ends with ActionNotFoundError,
\* and the transaction is out of storage.
C6_MissingActionRaises ==
    \A p \in Procs :
        LET c == call[p] IN
        (c.op = "check" /\ c.pc = "done" /\ c.found = "missing") =>
            /\ c.raised.kind = "ActionNotFoundError"
            /\ c.tid \notin DOMAIN content

\* C7: the transaction_id a successful init_auth returns is the id the
\* store's save returned, so a load of it finds the transaction just saved.
C7_ReturnsStoreMintedId ==
    \A p \in Procs :
        LET c == call[p] IN
        (c.op = "init_auth" /\ c.pc = "done" /\ c.raised = NoExc) =>
            /\ c.ret.transaction_id = c.saved
            /\ Load(content, c.ret.transaction_id) = c.tx

C9_RacingChecksFinalizeTwice ==
    \A p, q \in Procs :
        LET c == call[p]
            d == call[q]
        IN (/\ p # q
            /\ IsCheck(c) /\ IsCheck(d)
            /\ c.pc = "done" /\ d.pc = "done"
            /\ c.tid = d.tid
            /\ c.tx # NoTx /\ d.tx # NoTx
            /\ c.result.kind = "complete" /\ d.result.kind = "complete"
            /\ ActionKey(c.tx) \in configACTIONS) =>
                /\ finalizeCount[c.tid] = 2
                /\ Has(c.events, "finalize") /\ Has(d.events, "finalize")

C9_Witness ==
    \E p, q \in Procs :
        /\ p # q
        /\ call[p].op = "check" /\ call[q].op = "check"
        /\ call[p].pc = "done" /\ call[q].pc = "done"
        /\ call[p].tid = call[q].tid
        /\ call[p].result.kind = "complete"
        /\ call[q].result.kind = "complete"
        /\ Has(call[p].events, "finalize") /\ Has(call[q].events, "finalize")
        /\ finalizeCount[call[p].tid] = 2

\* C10: a cancel of a transaction_id that is not in storage, never there or
\* already cancelled, returns without an error, calls the provider not at
\* all and leaves storage as it was; a cancel that returned leaves its
\* transaction_id out of storage; and no order is cancelled twice at the
\* provider.
C10_CancelIdempotent ==
    /\ \A p \in Procs :
        LET c == call[p] IN
        (c.op = "cancel" /\ c.pc = "done") =>
            /\ c.tid \notin DOMAIN c.pre =>
                    /\ c.raised = NoExc
                    /\ c.events = <<"load">>
                    /\ content = c.pre
            /\ c.raised = NoExc => c.tid \notin DOMAIN content
    /\ \A o \in OrderRefs : cancelCount[o] <= 1

C10_Witness ==
    \E p \in Procs :
        /\ call[p].op = "cancel" /\ call[p].pc = "done"
        /\ call[p].tid \notin DOMAIN call[p].pre
        /\ orders = 1
        /\ cancelCount[1] = 1
        /\ deleteCount[call[p].tid] = 1

\* C11: a cancel whose provider call raised ends with that provider or
\* transport error, has not reached the delete, and leaves the transaction in
\* storage as it was; a cancel that did delete had its provider call succeed.
C11_CancelKeepsOnProviderError ==
    \A p \in Procs :
        LET c == call[p] IN
        c.op = "cancel" =>
            /\ c.raised # NoExc =>
                    /\ c.pc = "done"
                    /\ c.raised.kind \in ClientErrors
                    /\ c.events = <<"load", "cancel">>
                    /\ c.tid \in DOMAIN content
                    /\ content = c.pre
            /\ Has(c.events, "delete") =>
                    /\ c.events = <<"load", "cancel", "delete">>
                    /\ c.raised = NoExc
                    /\ cancelCount[c.tx.order_ref] = 1

C11_Witness ==
    \E p \in Procs :
        /\ call[p].op = "cancel" /\ call[p].pc = "done"
        /\ call[p].raised.kind = "BankIDHTTPError"
        /\ Load(content, call[p].tid) = call[p].tx
        /\ call[p].tx # NoTx

\* C12: a transaction_id the engine has deleted from storage, in a check that
\* got a terminal result or in a cancel, is never in storage again, whatever
\* init, check and cancel calls follow; every later check of it ends with
\* TransactionExpired and every later cancel returns, each after the load
\* alone, with no provider call.
C12_TerminalAbsorbing ==
    \A id \in IDs :
        deleteCount[id] >= 1 =>
            /\ id \notin DOMAIN content
            /\ \A p \in Procs :
                LET c == call[p] IN
                (c.tid = id /\ c.pc = "done" /\ ~Has(c.events, "delete")
                    /\ c.op \in {"check", "cancel"}) =>
                    /\ c.events = <<"load">>
                    /\ c.raised = IF c.op = "check"
                                  THEN Exc("TransactionExpired")
                                  ELSE NoExc

C12_Witness ==
    \E p \in Procs :
        /\ call[p].op = "check" /\ call[p].pc = "done"
        /\ deleteCount[call[p].tid] = 1
        /\ call[p].events = <<"load">>
        /\ inits = 2
        /\ content # EmptyStore
        /\ call[p].tid \notin DOMAIN content

\* C13: an InitFailed(detail, status) raised by the action's initialize is
\* the exception init_auth ends with, the same status and the same detail,
\* "Initialisation failed" standing for a detail that was not given; the
\* call has made no provider auth call and has saved no transaction.
C13_InitFailedPropagates ==
    \A p \in Procs :
        LET c == call[p] IN
        (c.op = "init_auth" /\ c.finExc # NoExc) =>
            /\ c.pc = "done"
            /\ c.raised.kind = "InitFailed"
            /\ c.raised.status = c.finExc.status
            /\ c.raised.detail = IF c.finExc.detail = None
                                 THEN "Initialisation failed"
                                 ELSE c.finExc.detail
            /\ c.events = <<"initialize">>
            /\ c.saved = 0
            /\ content = c.pre

C13_Witness ==
    \E p \in Procs :
        /\ call[p].op = "init_auth" /\ call[p].pc = "done"
        /\ call[p].finExc = [kind |-> "InitFailed", detail |-> None,
                             status |-> "403"]
        /\ call[p].raised.detail = "Initialisation failed"
        /\ orders = 1

\* C14: a check that returns gives a QR code exactly when its collect result
\* is pending with hint code outstandingTransaction or noClient; for every
\* other pending hint code and for complete and failed results the qr_code
\* is None.
C14_QrCodeIffWaitingForClient ==
    \A p \in Procs :
        LET c == call[p] IN
        (IsCheck(c) /\ c.pc = "done" /\ c.raised = NoExc) =>
            /\ (c.ret.qr_code # None) <=>
                    (/\ c.result.kind = "pending"
                     /\ c.result.hint \in
                            {"outstandingTransaction", "noClient"})
            /\ (c.result.kind = "pending"
                    /\ c.result.hint \in {"started", "userMrtd",
                            "userCallConfirm", "userSign", "unknown"}) =>
                    c.ret.qr_code = None

C14_Witness ==
    \E p \in Procs :
        /\ call[p].op = "check" /\ call[p].pc = "done"
        /\ call[p].result = [kind |-> "pending", hint |-> "noClient"]
        /\ call[p].ret.qr_code = "qr"
        /\ call[p].tid \in DOMAIN content

\* C15 (as stated): when finalize has returned a value in a check or an
\* acheck that returns, that value is the finalize output element of what
\* the call returns.
C15_FinalizeValuePassedThrough ==
    \A p \in Procs :
        LET c == call[p] IN
        (IsCheck(c) /\ c.pc = "done" /\ c.raised = NoExc
            /\ Has(c.events, "finalize")) =>
            c.ret.finalize_data = c.finRet

\* C15 (amended): an acheck that returns gives, as its third element, the
\* value finalize returned when the result is complete, and None when the
\* result is pending or failed; a check returns (result, qr_code) only, and
\* what finalize returned is not in it.
C15_AcheckPassesFinalizeValue ==
    \A p \in Procs :
        LET c == call[p] IN
        (IsCheck(c) /\ c.pc = "done" /\ c.raised = NoExc) =>
            /\ c.op = "acheck" =>
                    /\ c.result.kind = "complete" =>
                            /\ Has(c.events, "finalize")
                            /\ c.ret.finalize_data = c.finRet
                    /\ c.result.kind \in {"pending", "failed"} =>
                            c.ret.finalize_data = None
            /\ c.op = "check" => c.ret.finalize_data = None

C15_Witness ==
    \E p \in Procs :
        /\ call[p].op = "acheck" /\ call[p].pc = "done"
        /\ call[p].result.kind = "complete"
        /\ call[p].finRet = "foo=bar"
        /\ call[p].ret.finalize_data = "foo=bar"

\* C16: the transaction init_auth saves holds the context initialize
\* returned, the name of the action and the operation; a stored transaction
\* is not changed by any call; and the finalize a later check invokes gets
\* the stored context and is the one registered under the stored
\* (operation, action_name).
C16_ContextFromInitializeToFinalize ==
    \A p \in Procs :
        LET c == call[p] IN
        /\ (c.op = "init_auth" /\ c.pc = "done" /\ c.raised = NoExc) =>
                /\ c.saved \in DOMAIN content
                /\ content[c.saved].context = c.initCtx
                /\ content[c.saved].action_name = c.action
                /\ content[c.saved].operation = "auth"
        /\ c.pc # "idle" =>
                \A id \in DOMAIN c.pre \cap DOMAIN content :
                    content[id] = c.pre[id]
        /\ (IsCheck(c) /\ Has(c.events, "finalize")) =>
                /\ c.tid \in DOMAIN c.pre
                /\ c.finCtx = c.pre[c.tid].context
                /\ c.finKey = <<c.pre[c.tid].operation,
                                c.pre[c.tid].action_name>>
                /\ c.finKey \in configACTIONS

C16_Witness ==
    \E p \in Procs :
        /\ call[p].op = "check" /\ call[p].pc = "done"
        /\ Has(call[p].events, "finalize")
        /\ call[p].tx.order_ref = 2
        /\ call[p].finCtx = "ctxB"
        /\ call[p].finKey = <<"auth", "PAY">>
        /\ \E id \in DOMAIN content : content[id].context = "ctxA"

\* The events a stream has emitted, in order, without the steps in between.
IsEvent(e) == e \in {"auth", "pending", "complete", "failed"}

Emitted(st) == SelectSeq(st.trace, IsEvent)

C19_ProviderErrorEndsWithFailed ==
    \A p \in Procs :
        LET st == stream[p] IN
        st.error \in ClientErrors =>
            /\ st.pc = "finished"
            /\ st.trace[Len(st.trace)] = "failed"

\* C20: for an answer that is not a success and carries a JSON object, the
\* error raised is the one the table gives for exactly that status and
\* errorCode, and UnknownError for every other pair, a known errorCode under
\* another status included; the request made, auth, sign, collect or cancel,
\* makes no difference.
C20_ErrorKindByExactPair ==
    LET r == response
        s == r.status
        c == r.errorCode
    IN (r.op # None /\ ~r.fault /\ r.status # 200 /\ r.json /\ r.object) =>
        r.raised =
            CASE s = 400 /\ c = "alreadyInProgress" -> "AlreadyInProgress"
              [] s = 400 /\ c = "invalidParameters" -> "InvalidParameters"
              [] s \in {401, 403} /\ c = "unauthorized" -> "Unauthorized"
              [] s = 404 /\ c = "notFound" -> "NotFound"
              [] s = 405 /\ c = "methodNotAllowed" -> "MethodNotAllowed"
              [] s = 408 /\ c = "requestTimeout" -> "RequestTimeout"
              [] s = 415 /\ c = "unsupportedMediaType" ->
                    "UnsupportedMediaType"
              [] s = 500 /\ c = "internalError" -> "InternalServerError"
              [] s = 503 /\ c = "maintenance" -> "ServiceUnavailable"
              [] OTHER -> "UnknownError"

C20_Witness ==
    /\ response.op = "cancel"
    /\ response.status = 404
    /\ response.errorCode = "maintenance"
    /\ response.raised = "UnknownError"

\* C21: every answer that is not a success, whatever its body, is raised as
\* UnknownError or another BankIDAPIError with the response on it, and with
\* a body that is not JSON as UnknownError whose json is None.
C21_EveryStatusErrorIsAPIError ==
    LET r == response
    IN (r.op # None /\ ~r.fault /\ r.status # 200) =>
        /\ r.raised \in APIErrors
        /\ r.carried
        /\ ~r.json => (r.raised = "UnknownError" /\ r.payload = None)

\* C22: a fault of the transport is raised as BankIDHTTPError, which is not
\* one of the BankIDAPIError classes, and an answer with a failure status is
\* never raised as BankIDHTTPError, whatever the client method.
C22_TransportFaultIsHTTPError ==
    LET r == response
    IN /\ "BankIDHTTPError" \notin APIErrors
       /\ (r.op # None /\ r.fault) => r.raised = "BankIDHTTPError"
       /\ (r.op # None /\ ~r.fault) => r.raised # "BankIDHTTPError"

C22_Witness ==
    /\ response.op = "collect"
    /\ response.fault
    /\ response.raised = "BankIDHTTPError"

\* C23: a pending answer decodes to PendingCollect and a failed answer to
\* FailedCollect whatever the hintCode string: one of the six named members of
\* the respective enumeration, or "unknown", gives that member, and every
\* other string, a member of the other enumeration included, gives UNKNOWN.
C23_UnknownHintDecodesToUnknown ==
    LET raw == computed.raw
        out == computed.out
        pendingKnown == {"outstandingTransaction", "noClient", "started",
                         "userMrtd", "userCallConfirm", "userSign"}
        failedKnown == {"expiredTransaction", "certificateErr", "userCancel",
                        "cancelled", "startFailed", "userDeclinedCall"}
    IN computed.fn = "process_collect_response" =>
        /\ raw.status = "pending" =>
                /\ out.kind = "pending"
                /\ out.hint = IF raw.hintCode \in pendingKnown
                              THEN raw.hintCode ELSE "unknown"
        /\ raw.status = "failed" =>
                /\ out.kind = "failed"
                /\ out.hint = IF raw.hintCode \in failedKnown
                              THEN raw.hintCode ELSE "unknown"

C23_Witness ==
    /\ computed.fn = "process_collect_response"
    /\ computed.raw.status = "pending"
    /\ computed.raw.hintCode = "userCancel"
    /\ computed.out.hint = "unknown"

\* C24: a check or acheck whose collect got a 2xx answer with a status other
\* than pending, complete and failed has no CollectResponse: it ended with
\* ValueError, which is neither a provider nor a transport error, without
\* reaching the delete or finalize, and the transaction is stored as before.
C24_UnknownStatusIsFatal ==
    \A p \in Procs :
        LET c == call[p] IN
        (c.op \in {"check", "acheck"}
            /\ c.answer \notin {None, "pending", "complete", "failed"}) =>
            /\ c.pc = "done"
            /\ c.result = NoResult
            /\ c.raised.kind = "ValueError"
            /\ c.raised.kind \notin ClientErrors \cup APIErrors
            /\ c.events = <<"load", "collect">>
            /\ c.tid \in DOMAIN content
            /\ content = c.pre

C24_Witness ==
    \E p \in Procs :
        /\ call[p].op = "check" /\ call[p].pc = "done"
        /\ call[p].answer = "expired"
        /\ call[p].raised.kind = "ValueError"
        /\ Load(content, call[p].tid) = call[p].tx
        /\ call[p].tx # NoTx

\* The keys of a request body that are there.
Sent(field) == field.state # "omitted"

\* A str | None argument that is set and not the empty string.
NonEmpty(value) == value.set /\ value.bytes > 0

\* Some field of the requirement is set.
SomeFieldSet(r) ==
    /\ r.set
    /\ \/ r.pin_code \/ r.mrtd \/ r.card_reader # None
       \/ r.certificate_policies # None \/ r.personal_number.set

\* C25: the body of an auth or sign request that is posted has requirement,
\* userVisibleData, userNonVisibleData and userVisibleDataFormat exactly when
\* the argument is set and not empty, and has none of them as null or as an
\* empty object.
C25_OptionalFieldsSentIffSet ==
    LET a == computed.args
        b == computed.body
    IN (computed.fn \in {"auth", "sign"} /\ computed.posted) =>
        /\ Sent(b.requirement) <=> SomeFieldSet(a.requirement)
        /\ Sent(b.requirement) =>
                b.requirement.state = "set"
                    /\ b.requirement.value # EmptyFragment
        /\ Sent(b.userVisibleData) <=> NonEmpty(a.user_visible_data)
        /\ Sent(b.userVisibleData) => b.userVisibleData.state = "set"
        /\ Sent(b.userNonVisibleData) <=> NonEmpty(a.user_non_visible_data)
        /\ Sent(b.userNonVisibleData) => b.userNonVisibleData.state = "set"
        /\ Sent(b.userVisibleDataFormat) <=> a.user_visible_data_format # None

\* The user data of a request is within the ceilings of its use site.
WithinCeilings(c) ==
    LET v == b64encode_len(c.args.user_visible_data.bytes)
        n == b64encode_len(c.args.user_non_visible_data.bytes)
    IN IF c.fn = "auth" THEN v <= 1500 /\ n <= 1500
       ELSE v <= 40000 /\ n <= 200000

C27_UserDataCeilings ==
    LET a == computed.args
        pn == a.requirement.personal_number
        v == 4 * ((a.user_visible_data.bytes + 2) \div 3)
        n == 4 * ((a.user_non_visible_data.bytes + 2) \div 3)
        vmax == IF computed.fn = "auth" THEN 1500 ELSE 40000
        nmax == IF computed.fn = "auth" THEN 1500 ELSE 200000
    IN (computed.fn \in {"auth", "sign"}
            /\ (pn.set => personal_number_valid(pn.chars))) =>
        /\ computed.raised = "ValueError" <=> (v > vmax \/ n > nmax)
        /\ computed.raised = "ValueError" => ~computed.posted
        /\ computed.raised = None =>
                /\ computed.posted
                /\ NonEmpty(a.user_visible_data) =>
                        computed.body.userVisibleData.value = v
                /\ NonEmpty(a.user_non_visible_data) =>
                        computed.body.userNonVisibleData.value = n

C27_Witness ==
    /\ computed.fn = "auth"
    /\ computed.args.user_visible_data = Data(1125)
    /\ computed.args.user_non_visible_data = Data(1126)
    /\ computed.raised = "ValueError"
    /\ ~computed.posted

\* The number a character is the decimal digit of.
DigitValue(ch) ==
    CHOOSE d \in 0 .. 9 :
        ch = <<"0", "1", "2", "3", "4", "5", "6", "7", "8", "9">>[d + 1]

RECURSIVE DecimalValue(_)
\* The number a sequence of decimal digits is the numeral of.
DecimalValue(chars) ==
    IF chars = <<>> THEN 0
    ELSE 10 * DecimalValue(SubSeq(chars, 1, Len(chars) - 1))
            + DigitValue(chars[Len(chars)])

\* The integer a decimal string with an optional minus sign is the text of.
SignedValue(chars) ==
    IF chars[1] = "-" THEN -DecimalValue(Tail(chars)) ELSE DecimalValue(chars)

\* C28: every QR code made of a stored order, at an instant not before the
\* instant its response was decoded, is bankid, the order's qrStartToken,
\* the whole seconds gone since that instant in decimal, and the HMAC-SHA256
\* of that text under the order's qrStartSecret; of two codes of the same
\* order the later one's seconds are not fewer.
C28_QrCodeOfElapsedSeconds ==
    \A k \in 1 .. Len(qr.codes) :
        LET made == qr.codes[k]
            elapsed == (made.at - qr.order.start_time) \div TicksPerSecond
        IN /\ made.at >= qr.order.start_time
           /\ made.code.prefix = "bankid"
           /\ made.code.qr_start_token = qr.order.qr_start_token
           /\ made.code.qr_time # <<>>
           /\ \A i \in 1 .. Len(made.code.qr_time) :
                    made.code.qr_time[i] \in
                        {"0", "1", "2", "3", "4", "5", "6", "7", "8", "9"}
           /\ DecimalValue(made.code.qr_time) = elapsed
           /\ made.code.mac =
                    [digest |-> "sha256", key |-> qr.order.qr_start_secret,
                     msg |-> made.code.qr_time]
           /\ k > 1 =>
                    DecimalValue(qr.codes[k - 1].code.qr_time)
                        <= DecimalValue(made.code.qr_time)

C28_Witness ==
    /\ Len(qr.codes) = 2
    /\ qr.order.start_time % TicksPerSecond # 0
    /\ qr.codes[1].code.qr_time = <<"0">>
    /\ qr.codes[2].code.qr_time = <<"1", "0">>

\* C29: the seconds in a QR code are a numeral without sign, of the
\* greatest whole number of seconds not above now - start_time, for every
\* now and start_time, now before start_time included.
C29_ElapsedIsNonNegativeFloor ==
    computed.fn = "generate_qr_code" =>
        LET t == computed.out.qr_time
        IN /\ t[1] # "-"
           /\ SignedValue(t) >= 0
           /\ SignedValue(t) =
                (computed.now - computed.order.start_time) \div TicksPerSecond

\* C29 as the code has it: from start_time on the seconds are the whole
\* seconds gone, not negative; before start_time they are the whole seconds
\* still to go with a minus sign, and 0 within the last second.
C29_ElapsedTruncatedTowardsZero ==
    computed.fn = "generate_qr_code" =>
        LET t == computed.out.qr_time
            gone == computed.now - computed.order.start_time
        IN /\ gone >= 0 =>
                /\ t[1] # "-"
                /\ SignedValue(t) = gone \div TicksPerSecond
           /\ gone < 0 =>
                /\ SignedValue(t) = -((-gone) \div TicksPerSecond)
                /\ t[1] = "-" <=> -gone >= TicksPerSecond

C29_Witness ==
    /\ computed.fn = "generate_qr_code"
    /\ computed.order.start_time - computed.now = TicksPerSecond + 1
    /\ computed.out.qr_time = <<"-", "1">>

\* Two different action types of a list have the same operation and name.
Collide(actions) ==
    \E i, j \in 1 .. Len(actions) :
        /\ actions[i].cls # actions[j].cls
        /\ actions[i].name = actions[j].name
        /\ configure_operation(actions[i]) = configure_operation(actions[j])

\* C30: building the registry of a list in which two action types have the
\* same operation and name raises, by configure as by load_actions; a
\* registry that was built has every action type of its list in it.
C30_CollisionFailsAtConfigure ==
    computed.fn \in {"configure", "load_actions"} =>
        /\ Collide(computed.actions) => computed.raised # None
        /\ computed.raised = None =>
                \A i \in 1 .. Len(computed.actions) :
                    \E x \in computed.registry :
                        x.cls = computed.actions[i].cls

\* C31: reading a configuration field that has never been configured, or
\* has been reset since, raises ConfigurationError naming that field; a read
\* after configure returns the value most recently configured for the field;
\* and a configure call that omits a field leaves the field as it was.
C31_ConfigReadsLatestOrFails ==
    /\ computed.fn = "__get__" =>
        IF computed.given[computed.attr] = PyNone
        THEN /\ computed.raised = "ConfigurationError"
             /\ computed.message = computed.attr
        ELSE /\ computed.raised = None
             /\ computed.out =
                    Assigned(computed.attr, computed.given[computed.attr])
    /\ computed.fn = "configure" =>
        \A a \in attrnames :
            computed.args[configure_parameter[a]] = PyNone =>
                attrs[a] = computed.before[a]

\* A field is read that was configured twice with different values, and
\* another that a later configure call left out; and an unset field is read.
C31_Witness ==
    /\ computed.fn = "__get__"
    /\ computed.attr = "API_BASE_URL"
    /\ computed.out = Py("str", "url-2")
    /\ attrs["STORAGE"].set
    /\ ~attrs["CERT"].set

\* C32: MemoryStorage behaves as a map over any sequence of save, load and
\* delete: load(id) returns the transaction saved under the id save
\* returned as long as the id has not been deleted, load returns None for an
\* id save never returned or that has been deleted, and delete of a missing
\* id raises no error and changes nothing.
C32_MemoryStorageIsAMap ==
    /\ computed.fn = "load" =>
        computed.out =
            IF computed.key \in DOMAIN ledger.saved \ ledger.deleted
            THEN ledger.saved[computed.key]
            ELSE NoTx
    /\ computed.fn = "delete" =>
        /\ computed.raised = None
        /\ computed.key \notin DOMAIN computed.before =>
                content = computed.before

\* A delete of an id that was deleted before, while another transaction is
\* still stored.
C32_Witness ==
    /\ computed.fn = "delete"
    /\ computed.key \in DOMAIN ledger.saved
    /\ computed.key \notin DOMAIN computed.before
    /\ content # EmptyStore

\* The order generate_qr_code is given: the QR fields of a transaction.
QrInputs(t) ==
    [qr_start_token |-> t.order_response.qr_start_token.v,
     qr_start_secret |-> t.order_response.qr_start_secret.v,
     start_time |-> t.order_response.start_time]

\* C33: Transaction.from_dict(t.as_dict()) equals t in all fields
\* (order_ref, auto_start_token, qr_start_token, qr_start_secret, start_time,
\* operation, action_name, context), so that a transaction loaded from
\* CacheStorage yields the same QR code inputs, and the same QR code at any
\* instant, as the one saved.
C33_TransactionRoundTrip ==
    computed.fn = "CacheStorage" =>
        /\ computed.out = computed.t
        /\ QrInputs(computed.out) = QrInputs(computed.t)
        /\ \A now \in Instants :
                generate_qr_code(QrInputs(computed.out), now)
                    = generate_qr_code(QrInputs(computed.t), now)

\* A sign transaction with a context whose start_time has a fraction of a
\* second has gone through the cache.
C33_Witness ==
    /\ computed.fn = "CacheStorage"
    /\ computed.t.order_response.start_time % TicksPerSecond # 0
    /\ computed.t.order_response.start_time > TicksPerSecond
    /\ computed.t.operation = Py("str", "sign")
    /\ computed.t.context # None
    /\ computed.cached.start_time # <<0, 0>>

\* The requests of a call that went to the given endpoint.
PostedTo(c, to) == {i \in 1 .. Len(c.requests) : c.requests[i].to = to}

\* The order_ref of the transaction stored under the id of the call when the
\* call began.
StoredOrderRef(c) == Load(c.pre, c.tid).order_ref

\* C34: no engine operation retries. One init call issues at most one
\* provider auth call; one check call on a stored transaction issues exactly
\* one provider collect call, and it carries the stored order_ref; one cancel
\* call issues at most one provider cancel call; this also when the provider
\* call fails.
C34_NoRetries ==
    \A p \in Procs :
        LET c == call[p] IN
        /\ c.op \in InitOps =>
            /\ Len(c.requests) <= 1
            /\ PostedTo(c, "auth") = DOMAIN c.requests
        /\ IsCheck(c) =>
            /\ PostedTo(c, "collect") = DOMAIN c.requests
            /\ Len(c.requests) <= 1
            /\ c.tx # NoTx /\ c.pc # "collect" =>
                c.requests = <<Posted("collect", StoredOrderRef(c))>>
        /\ c.op = "cancel" =>
            /\ Len(c.requests) <= 1
            /\ \A i \in DOMAIN c.requests :
                c.requests[i] = Posted("cancel", StoredOrderRef(c))

\* A check of the second order stored has ended with the provider's error,
\* after its one collect call.
C34_Witness ==
    \E p \in Procs :
        /\ call[p].op = "check"
        /\ call[p].pc = "done"
        /\ call[p].raised.kind \in ClientErrors
        /\ call[p].tx.order_ref = 2
        /\ Len(call[p].requests) = 1

\* The latest call of the client failed: the transport or the status did.
CallFailed == client.calls > 0 /\ (client.answer.fault \/ client.answer.status # 200)

\* The default hook was entered once in the latest call, as the last and so
\* the innermost of the hooks.
DefaultHookInnermostOnce ==
    /\ client.entered # <<>>
    /\ client.entered[Len(client.entered)] = httpx_error_hook
    /\ \A i \in 1 .. Len(client.entered) - 1 :
            client.entered[i] # httpx_error_hook

\* The converted errors: BankIDAPIError with its subclasses, BankIDHTTPError.
ConvertedErrors == APIErrors \cup {"BankIDHTTPError"}

EventsOf(c, step) == {i \in 1 .. Len(c.events) : c.events[i] = step}

\* C36: a check whose collect result is PendingCollect leaves storage
\* exactly as it was, the transaction loadable with the same order response,
\* operation, action_name and context, and invokes no finalize; and check
\* never saves or replaces a transaction: its only storage operations are
\* one load and at most one delete.
C36_PendingCheckLeavesStorage ==
    \A p \in Procs :
        LET c == call[p] IN
        IsCheck(c) =>
            /\ EventsOf(c, "save") = {}
            /\ Cardinality(EventsOf(c, "load")) = IF c.pc = "load" THEN 0 ELSE 1
            /\ Cardinality(EventsOf(c, "delete")) <= 1
            /\ c.pc # "load" /\ EventsOf(c, "delete") = {} => content = c.pre
            /\ c.result.kind = "pending" =>
                /\ content = c.pre
                /\ Load(content, c.tid) = c.tx
                /\ EventsOf(c, "delete") = {}
                /\ EventsOf(c, "finalize") = {}
                /\ finalizeCount[c.tid] = 0

\* A check has returned a pending result with a QR code while two
\* transactions are stored.
C36_Witness ==
    \E p \in Procs :
        /\ call[p].op = "check"
        /\ call[p].pc = "done"
        /\ call[p].result.kind = "pending"
        /\ call[p].ret.qr_code # None
        /\ Cardinality(DOMAIN content) = 2

\* C37: if the provider collect call inside check raises a provider API
\* error or a transport error, the error propagates out of check, no finalize
\* is invoked, and the transaction remains in storage unchanged, so that a
\* later check loads it and can poll the same order again.
C37_CollectErrorKeepsTransaction ==
    \A p \in Procs :
        LET c == call[p] IN
        (IsCheck(c) /\ c.thrown \in ClientErrors) =>
            /\ c.pc = "done"
            /\ c.raised = Exc(c.thrown)
            /\ c.ret = NoRet
            /\ EventsOf(c, "finalize") = {}
            /\ EventsOf(c, "delete") = {}
            /\ finalizeCount[c.tid] = 0
            /\ content = c.pre
            /\ c.tid \in DOMAIN content
            /\ Load(content, c.tid) = c.tx

\* A check of one of two stored transactions has ended with a transport
\* error.
C37_Witness ==
    \E p \in Procs :
        /\ call[p].op = "check"
        /\ call[p].thrown = "BankIDHTTPError"
        /\ call[p].raised.kind = "BankIDHTTPError"
        /\ Cardinality(DOMAIN content) = 2
        /\ call[p].tx.order_ref = 2

\* C38: init saves a transaction only after the provider auth call has
\* returned a decoded order response: if the provider call raises a provider
\* API error, a transport error or a local validation error, the error
\* propagates and storage is unchanged.
C38_InitSavesAfterAuthOnly ==
    \A p \in Procs :
        LET c == call[p] IN
        c.op \in InitOps =>
            /\ EventsOf(c, "save") # {} =>
                /\ c.thrown = None
                /\ \E i \in EventsOf(c, "auth") :
                        \A j \in EventsOf(c, "save") : i < j
                /\ c.tx.order_ref \in 1 .. orders
            /\ EventsOf(c, "save") = {} => content = c.pre
            /\ c.thrown # None =>
                /\ c.thrown \in AuthErrors
                /\ c.pc = "done"
                /\ c.raised = Exc(c.thrown)
                /\ c.ret = NoRet
                /\ content = c.pre

\* An init_auth has ended with the validation error of the client while an
\* earlier transaction is stored.
C38_Witness ==
    \E p \in Procs :
        /\ call[p].op = "init_auth"
        /\ call[p].pc = "done"
        /\ call[p].thrown = "ValueError"
        /\ call[p].raised.kind = "ValueError"
        /\ content # EmptyStore

\* The provider has answered the collect poll of a stream with a terminal
\* status.
TerminalAnswered(p) ==
    /\ stream[p].pc = "polling"
    /\ call[p].answer \in {"complete", "failed"}

\* The generator has returned after a terminal event, and the transaction
\* is not in storage.
EndedWithTerminalEvent(p) ==
    /\ stream[p].pc = "finished"
    /\ stream[p].trace # <<>>
    /\ stream[p].trace[Len(stream[p].trace)] \in {"complete", "failed"}
    /\ stream[p].tid \notin DOMAIN content

\* The generator was left by the KeyError of acheck, the action of the
\* completed transaction not being registered: no event after the poll, and
\* the transaction is not in storage.
EndedWithoutEvent(p) ==
    /\ stream[p].pc = "crashed"
    /\ stream[p].error = "KeyError"
    /\ stream[p].trace[Len(stream[p].trace)] = "poll"
    /\ stream[p].tid \notin DOMAIN content

Outcome(r) ==
    [storage |-> SelectSeq(r.call.events,
                           LAMBDA e : e \in {"load", "save", "delete"}),
     content |-> r.content,
     finalized |-> Has(r.call.events, "finalize"),
     returned |-> r.call.raised = NoExc,
     result |-> IF r.call.raised = NoExc THEN r.call.result ELSE NoResult,
     qr_code |-> r.call.ret.qr_code,
     error |-> r.call.raised.kind]

\* C40: the blocking check and the non-blocking acheck are equivalent on
\* every input: for the same storage content, registry and provider answer
\* they make the same storage operations, invoke finalize under the same
\* conditions, return the same (result, qr_code), and fail with the same
\* error kind when the transaction is absent or the action is not
\* registered.
C40_CheckAndAcheckEquivalent ==
    computed # NoComputation =>
        Outcome(computed.check) = Outcome(computed.acheck)

====
